---- MODULE Spec2Model ----
(***************************************************************************)
(* Session discovery-memory cache of the deck builder:                     *)
(*   app/utils/memory_cache.py   CardDiscovery, MemoryCache,               *)
(*                               MemoryCacheManager                        *)
(*   app/utils/claude_client.py  _should_perform_new_search and the        *)
(*                               request flow that feeds the cache         *)
(*                                                                         *)
(* Strings are TLC strings; substring tests, lower(), split() and          *)
(* replace() are computed character by character.  relevance_score is kept *)
(* in tenths (1.0 is 10), time in hours.  A Python dict is a sequence of   *)
(* entries in insertion order.                                             *)
(***************************************************************************)
EXTENDS Integers, Sequences, FiniteSets, TLC

VARIABLES caches, now, ret, ghost, req

vars == <<caches, now, ret, ghost, req>>

(***************************************************************************)
(* Python strings                                                          *)
(***************************************************************************)

\* s[i] of a string, as a one-character string
CharAt(s, i) == SubSeq(s, i, i)

\* needle in hay
Contains(hay, needle) ==
    \E i \in 0..(Len(hay) - Len(needle)) : SubSeq(hay, i + 1, i + Len(needle)) = needle

\* the characters str.lower() changes, each with its lower-case form
Lowered ==
    ("A" :> "a") @@ ("B" :> "b") @@ ("C" :> "c") @@ ("D" :> "d") @@ ("E" :> "e") @@ ("F" :> "f")
    @@ ("G" :> "g") @@ ("H" :> "h") @@ ("I" :> "i") @@ ("J" :> "j") @@ ("K" :> "k")
    @@ ("L" :> "l") @@ ("M" :> "m") @@ ("N" :> "n") @@ ("O" :> "o") @@ ("P" :> "p")
    @@ ("Q" :> "q") @@ ("R" :> "r") @@ ("S" :> "s") @@ ("T" :> "t") @@ ("U" :> "u")
    @@ ("V" :> "v") @@ ("W" :> "w") @@ ("X" :> "x") @@ ("Y" :> "y") @@ ("Z" :> "z")
    @@ ("É" :> "é")

\* str.lower() of one character
LowerChar(c) == IF c \in DOMAIN Lowered THEN Lowered[c] ELSE c

RECURSIVE LowerFrom(_, _)
LowerFrom(s, i) ==
    IF i > Len(s) THEN "" ELSE LowerChar(CharAt(s, i)) \o LowerFrom(s, i + 1)

\* str.lower()
Lower(s) == LowerFrom(s, 1)

RECURSIVE ReplaceFrom(_, _, _, _)
ReplaceFrom(s, i, old, new) ==
    IF i > Len(s) THEN ""
    ELSE (IF CharAt(s, i) = old THEN new ELSE CharAt(s, i)) \o ReplaceFrom(s, i + 1, old, new)

\* str.replace(old, new) for a one-character old
Replace(s, old, new) == ReplaceFrom(s, 1, old, new)

IsSpace(c) == c = " "

\* str.split(): the maximal runs of non-blank characters, in order.
\* cur is the word being read, acc the words read so far.
RECURSIVE SplitFrom(_, _, _, _)
SplitFrom(s, i, cur, acc) ==
    IF i > Len(s) THEN (IF cur = "" THEN acc ELSE Append(acc, cur))
    ELSE IF IsSpace(CharAt(s, i))
         THEN SplitFrom(s, i + 1, "", IF cur = "" THEN acc ELSE Append(acc, cur))
         ELSE SplitFrom(s, i + 1, cur \o CharAt(s, i), acc)

Split(s) == SplitFrom(s, 1, "", <<>>)

Range(q) == { q[i] : i \in 1..Len(q) }

\* any(k in text for k in keywords)
AnyIn(keywords, text) == \E k \in keywords : Contains(text, k)

(***************************************************************************)
(* Card records: a dict with optional fields                               *)
(***************************************************************************)

\* dict.get(field, default)
Get(card, f, default) == IF f \in DOMAIN card THEN card[f] ELSE default

\* card.get('card_id') is truthy: present and not the empty string
HasCardId(card) == Get(card, "card_id", "") # ""

(***************************************************************************)
(* MemoryCache._extract_synergy_tags                                       *)
(***************************************************************************)

TypeTags(types) == [i \in 1..Len(types) |-> "type_" \o Lower(types[i])]

AbilityTagsOf(ability) ==
    LET text == Lower(Get(ability, "text", ""))
    IN  (IF Contains(text, "draw") THEN <<"draw_power">> ELSE <<>>)
        \o (IF Contains(text, "search") THEN <<"search_effect">> ELSE <<>>)
        \o (IF Contains(text, "energy") THEN <<"energy_acceleration">> ELSE <<>>)
        \o (IF Contains(text, "damage") THEN <<"damage_synergy">> ELSE <<>>)

AttackTagsOf(attack) ==
    LET text == Lower(Get(attack, "text", ""))
    IN  (IF Contains(text, "each") /\ Contains(text, "pokemon")
            THEN <<"spread_damage">> ELSE <<>>)
        \o (IF Contains(text, "discard") THEN <<"discard_synergy">> ELSE <<>>)
        \o (IF Contains(text, "switch") THEN <<"switch_synergy">> ELSE <<>>)

RECURSIVE AbilityTags(_)
AbilityTags(abilities) ==
    IF abilities = <<>> THEN <<>>
    ELSE AbilityTagsOf(Head(abilities)) \o AbilityTags(Tail(abilities))

RECURSIVE AttackTags(_)
AttackTags(attacks) ==
    IF attacks = <<>> THEN <<>>
    ELSE AttackTagsOf(Head(attacks)) \o AttackTags(Tail(attacks))

SubtypeTags(subtype) ==
    IF subtype # "" THEN <<"subtype_" \o Replace(Lower(subtype), " ", "_")>> ELSE <<>>

\* The tags list, one append per rule that fires, in the code's order.
ExtractSynergyTags(card) ==
    TypeTags(Get(card, "types", <<>>))
    \o AbilityTags(Get(card, "abilities", <<>>))
    \o AttackTags(Get(card, "attacks", <<>>))
    \o SubtypeTags(Get(card, "subtype", ""))

(***************************************************************************)
(* MemoryCache._calculate_relevance, in tenths                             *)
(***************************************************************************)

BaseScore == 10
TypeBonus == 5
AbilityBonus == 3
AttackBonus == 2
StrategyBonus == 4
TagBonus == 2

StrategyMatches(card, strategy) ==
    /\ strategy # ""
    /\ \E w \in Range(Split(Lower(strategy))) : Contains(Lower(Get(card, "name", "")), w)

CalculateRelevance(card, search_context, strategy) ==
    BaseScore
    + (IF Contains(Lower(search_context), Lower(Get(card, "card_type", "")))
          THEN TypeBonus ELSE 0)
    + (IF Get(card, "abilities", <<>>) # <<>> THEN AbilityBonus ELSE 0)
    + (IF Get(card, "attacks", <<>>) # <<>> THEN AttackBonus ELSE 0)
    + (IF StrategyMatches(card, strategy) THEN StrategyBonus ELSE 0)
    + TagBonus * Len(ExtractSynergyTags(card))

(***************************************************************************)
(* CardDiscovery and MemoryCache                                           *)
(***************************************************************************)

\* Optional[str]: None is <<>>, a string s is <<s>>
None == <<>>
Some(s) == <<s>>

\* CardDiscovery(...) with __post_init__
CardDiscovery(card, t, search_context, score) ==
    [card_id |-> card["card_id"],
     card_data |-> card,
     discovered_at |-> t,
     search_context |-> search_context,
     relevance_score |-> score,
     synergy_tags |-> <<>>,
     name |-> Get(card, "name", "Unknown"),
     card_type |-> Get(card, "card_type", "Unknown"),
     types |-> Get(card, "types", <<>>),
     subtype |-> Get(card, "subtype", "")]

\* a cache whose last_updated default was computed once, when the class was
\* defined, instead of at construction
NewCacheStale(user_id, deck_id, t) ==
    [user_id |-> user_id,
     deck_id |-> deck_id,
     discovered_cards |-> <<>>,
     search_history |-> <<>>,
     strategy_context |-> "",
     synergy_patterns |-> <<>>,
     created_at |-> t,
     last_updated |-> 0]

\* MemoryCache(user_id=..., deck_id=...) constructed at time t
NewCache(user_id, deck_id, t) ==
    [user_id |-> user_id,
     deck_id |-> deck_id,
     discovered_cards |-> <<>>,
     search_history |-> <<>>,
     strategy_context |-> "",
     synergy_patterns |-> <<>>,
     created_at |-> t,
     last_updated |-> t]

\* dict keys, and dict[k] = v keeping the position of an existing key
CardIds(d) == { d[i].card_id : i \in 1..Len(d) }

Lookup(d, id) == d[CHOOSE i \in 1..Len(d) : d[i].card_id = id]

Put(d, disc) ==
    IF disc.card_id \in CardIds(d)
    THEN [i \in 1..Len(d) |-> IF d[i].card_id = disc.card_id THEN disc ELSE d[i]]
    ELSE Append(d, disc)

HistoryLimit == 20

\* self.search_history[-20:]
LastN(q, n) == IF Len(q) > n THEN SubSeq(q, Len(q) - n + 1, Len(q)) ELSE q

\* the history truncated from the wrong end: the oldest entries are kept
UpdateHistoryOldest(history, search_context) ==
    LET h == Append(history, search_context)
    IN  IF Len(h) > HistoryLimit THEN SubSeq(h, 1, HistoryLimit) ELSE h

\* the history after append and truncation (lines 69-71)
UpdateHistory(history, search_context) ==
    LET h == Append(history, search_context)
    IN  IF Len(h) > HistoryLimit THEN LastN(h, HistoryLimit) ELSE h

\* AddOne storing every discovery as a new entry, also for an id already cached
AddOneAppend(st, card, search_context, t) ==
    IF ~HasCardId(card) THEN st
    ELSE LET d0 == CardDiscovery(card, t, search_context,
                       CalculateRelevance(card, search_context, st.cache.strategy_context))
             d  == [d0 EXCEPT !.synergy_tags = ExtractSynergyTags(card)]
         IN  [cache |-> [st.cache EXCEPT !.discovered_cards = Append(@, d)],
              out |-> Append(st.out, d)]

\* AddOne merging on overwrite: the tags of the entry replaced are kept and the
\* new ones appended
AddOneMerge(st, card, search_context, t) ==
    IF ~HasCardId(card) THEN st
    ELSE LET d0 == CardDiscovery(card, t, search_context,
                       CalculateRelevance(card, search_context, st.cache.strategy_context))
             kept == IF card["card_id"] \in CardIds(st.cache.discovered_cards)
                     THEN Lookup(st.cache.discovered_cards, card["card_id"]).synergy_tags
                     ELSE <<>>
             d  == [d0 EXCEPT !.synergy_tags = kept \o ExtractSynergyTags(card)]
         IN  [cache |-> [st.cache EXCEPT !.discovered_cards = Put(@, d)],
              out |-> Append(st.out, d)]

\* AddOne skipping only a record whose card_id is absent: an empty id is stored
AddOneNoneOnly(st, card, search_context, t) ==
    IF "card_id" \notin DOMAIN card THEN st
    ELSE LET d0 == CardDiscovery(card, t, search_context,
                       CalculateRelevance(card, search_context, st.cache.strategy_context))
             d  == [d0 EXCEPT !.synergy_tags = ExtractSynergyTags(card)]
         IN  [cache |-> [st.cache EXCEPT !.discovered_cards = Put(@, d)],
              out |-> Append(st.out, d)]

\* AddOne scoring without the strategy context of the cache
AddOneNoStrategy(st, card, search_context, t) ==
    IF ~HasCardId(card) THEN st
    ELSE LET d0 == CardDiscovery(card, t, search_context,
                       CalculateRelevance(card, search_context, ""))
             d  == [d0 EXCEPT !.synergy_tags = ExtractSynergyTags(card)]
         IN  [cache |-> [st.cache EXCEPT !.discovered_cards = Put(@, d)],
              out |-> Append(st.out, d)]

\* AddOne keeping the entry already stored under the id (first write wins)
AddOneKeepFirst(st, card, search_context, t) ==
    IF ~HasCardId(card) THEN st
    ELSE LET d0 == CardDiscovery(card, t, search_context,
                       CalculateRelevance(card, search_context, st.cache.strategy_context))
             d  == [d0 EXCEPT !.synergy_tags = ExtractSynergyTags(card)]
         IN  IF card["card_id"] \in CardIds(st.cache.discovered_cards)
             THEN [cache |-> st.cache, out |-> Append(st.out, d)]
             ELSE [cache |-> [st.cache EXCEPT !.discovered_cards = Put(@, d)],
                   out |-> Append(st.out, d)]

\* one iteration of the loop over cards (lines 48-66); st = [cache, out]
AddOne(st, card, search_context, t) ==
    IF ~HasCardId(card) THEN st
    ELSE LET d0 == CardDiscovery(card, t, search_context,
                       CalculateRelevance(card, search_context, st.cache.strategy_context))
             d  == [d0 EXCEPT !.synergy_tags = ExtractSynergyTags(card)]
         IN  [cache |-> [st.cache EXCEPT !.discovered_cards = Put(@, d)],
              out |-> Append(st.out, d)]

\* A field that is present with the value None is listed in the record's "nulls"
\* (and is then no key of the record); an absent field is in neither.
IsNull(record, f) == f \in Get(record, "nulls", {})

\* .lower() of None (lines 153, 190, 202) and a for loop over None (lines 183,
\* 188, 200) raise
NullRaises == {"card_type", "types", "abilities", "attacks"}

\* processing the record raises before it is stored (lines 54-63)
Raises(card) ==
    /\ HasCardId(card)
    /\ \/ \E f \in NullRaises : IsNull(card, f)
       \/ \E a \in Range(Get(card, "abilities", <<>>)) : IsNull(a, "text")
       \/ \E a \in Range(Get(card, "attacks", <<>>)) : IsNull(a, "text")

RaisesIn(cards) == \E i \in 1..Len(cards) : Raises(cards[i])

\* the records the loop processes before one raises
Processed(cards) ==
    IF RaisesIn(cards)
    THEN SubSeq(cards, 1, (CHOOSE i \in 1..Len(cards) :
                              Raises(cards[i]) /\ \A j \in 1..(i - 1) : ~Raises(cards[j])) - 1)
    ELSE cards

\* the loop over cards (line 48). Operator arguments are evaluated lazily: the test
\* on next makes each iteration compute its state before the following one starts,
\* and changes no value.
RECURSIVE AddLoop(_, _, _, _)
AddLoop(st, cards, search_context, t) ==
    IF cards = <<>> THEN st
    ELSE LET next == AddOne(st, Head(cards), search_context, t)
         IN  IF Len(next.out) >= 0
             THEN AddLoop(next, Tail(cards), search_context, t)
             ELSE next

\* lines 68-74 after the loop left st, or the exception that ended the loop
Returned(st, raised, search_context, t) ==
    IF raised THEN [cache |-> st.cache, out |-> <<>>, raised |-> TRUE]
    ELSE [cache |-> [st.cache EXCEPT !.search_history = UpdateHistory(@, search_context),
                                     !.last_updated = t],
          out |-> st.out, raised |-> FALSE]

\* add_discovered_cards returning at once on an empty list, nothing recorded
AddDiscoveredCardsEarlyReturn(cache, cards, search_context, t) ==
    IF cards = <<>> THEN [cache |-> cache, out |-> <<>>, raised |-> FALSE]
    ELSE Returned(AddLoop([cache |-> cache, out |-> <<>>], Processed(cards), search_context, t),
                  RaisesIn(cards), search_context, t)

\* MemoryCache.add_discovered_cards: [cache |-> the cache after, out |->
\* new_discoveries, raised |-> the call ended in an exception]. A record that
\* raises ends the call inside the loop: the records before it are stored, and
\* lines 68-74 are not reached.
AddDiscoveredCards(cache, cards, search_context, t) ==
    Returned(AddLoop([cache |-> cache, out |-> <<>>], Processed(cards), search_context, t),
             RaisesIn(cards), search_context, t)

\* MemoryCache.get_cards_by_type
GetCardsByType(cache, card_type) ==
    SelectSeq(cache.discovered_cards, LAMBDA d : d.card_type = card_type)

\* tag in discovery.synergy_tags
GetCardsBySynergy(cache, tag) ==
    SelectSeq(cache.discovered_cards, LAMBDA d : tag \in Range(d.synergy_tags))

DeckSize == 60
PokemonGoal == 10
TrainerGoal == 15
EnergyGoal == 8

\* get_deck_progress without the cap at 100
GetDeckProgressUncapped(cache) ==
    LET total == Len(cache.discovered_cards)
    IN  [total_discovered |-> total,
         cards_by_type |-> [Pokemon |-> Len(GetCardsByType(cache, "Pokémon")),
                            Trainer |-> Len(GetCardsByType(cache, "Trainer")),
                            Energy |-> Len(GetCardsByType(cache, "Energy"))],
         synergy_patterns |-> Len(cache.synergy_patterns),
         deck_completion_x60 |-> total * 100,
         search_count |-> Len(cache.search_history)]

\* sorted(..., reverse=True) one element at a time: d goes behind every element
\* whose score is not lower, so equal scores keep the order of the input
InsertByScore(sorted, d) ==
    LET ahead == { i \in 1..Len(sorted) : sorted[i].relevance_score >= d.relevance_score }
        n == Cardinality(ahead)
    IN  SubSeq(sorted, 1, n) \o <<d>> \o SubSeq(sorted, n + 1, Len(sorted))

RECURSIVE SortedByScore(_, _)
SortedByScore(sorted, rest) ==
    IF rest = <<>> THEN sorted
    ELSE SortedByScore(InsertByScore(sorted, Head(rest)), Tail(rest))

\* sorted_cards[:limit]
Prefix(q, limit) ==
    IF limit >= 0 THEN SubSeq(q, 1, IF limit < Len(q) THEN limit ELSE Len(q))
    ELSE SubSeq(q, 1, IF Len(q) + limit > 0 THEN Len(q) + limit ELSE 0)

\* sorting with the ties reversed: an ascending sort turned around afterwards
GetTopCardsReversed(cache, limit) ==
    LET up == SortedByScore(<<>>, cache.discovered_cards)
    IN  Prefix([i \in 1..Len(up) |->
                  LET same == { j \in 1..Len(up) : up[j].relevance_score = up[i].relevance_score }
                      lo == CHOOSE j \in same : \A x \in same : j <= x
                      hi == CHOOSE j \in same : \A x \in same : j >= x
                  IN  up[lo + hi - i]], limit)

\* MemoryCache.get_top_cards_by_relevance
GetTopCardsByRelevance(cache, limit) == Prefix(SortedByScore(<<>>, cache.discovered_cards), limit)

\* MemoryCache.suggest_next_search
SuggestNextSearch(cache) ==
    LET pokemon == Len(GetCardsByType(cache, "Pokémon"))
        trainer == Len(GetCardsByType(cache, "Trainer"))
        energy == Len(GetCardsByType(cache, "Energy"))
    IN  IF pokemon < PokemonGoal
        THEN "Focus on finding more Pokémon attackers and support Pokémon"
        ELSE IF trainer < TrainerGoal
        THEN "Search for Trainer cards - draw power, search, and utility"
        ELSE IF energy < EnergyGoal
        THEN "Add Energy cards to power your Pokémon attacks"
        ELSE IF Len(cache.discovered_cards) < DeckSize
        THEN "Look for synergistic cards that work well with your current discoveries"
        ELSE "Consider refining your deck by finding better alternatives"

\* MemoryCache.get_deck_progress; deck_completion in percent, exact when it is whole
GetDeckProgress(cache) ==
    LET total == Len(cache.discovered_cards)
    IN  [total_discovered |-> total,
         cards_by_type |-> [Pokemon |-> Len(GetCardsByType(cache, "Pokémon")),
                            Trainer |-> Len(GetCardsByType(cache, "Trainer")),
                            Energy |-> Len(GetCardsByType(cache, "Energy"))],
         synergy_patterns |-> Len(cache.synergy_patterns),
         deck_completion_x60 |-> IF total * 100 < 100 * DeckSize THEN total * 100
                                 ELSE 100 * DeckSize,
         search_count |-> Len(cache.search_history)]

\* tag_groups: a dict tag -> list of names, as a sequence of [tag, names]
GroupTags(groups) == { groups[i].tag : i \in 1..Len(groups) }

GroupAdd(groups, tag, name) ==
    IF tag \in GroupTags(groups)
    THEN [i \in 1..Len(groups) |->
            IF groups[i].tag = tag
            THEN [tag |-> tag, names |-> Append(groups[i].names, name)]
            ELSE groups[i]]
    ELSE Append(groups, [tag |-> tag, names |-> <<name>>])

RECURSIVE GroupTagsOf(_, _, _)
GroupTagsOf(groups, tags, name) ==
    IF tags = <<>> THEN groups
    ELSE GroupTagsOf(GroupAdd(groups, Head(tags), name), Tail(tags), name)

\* the loop over the discoveries (line 117), each iteration computed before the next
RECURSIVE GroupAll(_, _)
GroupAll(groups, discoveries) ==
    IF discoveries = <<>> THEN groups
    ELSE LET next == GroupTagsOf(groups, Head(discoveries).synergy_tags, Head(discoveries).name)
         IN  IF Len(next) >= 0 THEN GroupAll(next, Tail(discoveries)) ELSE next

MinSynergy == 2

\* the value MemoryCache.identify_synergies computes, stores and returns
Synergies(cache) ==
    SelectSeq(GroupAll(<<>>, cache.discovered_cards), LAMBDA g : Len(g.names) >= MinSynergy)

IdentifySynergiesOn(cache) == [cache EXCEPT !.synergy_patterns = Synergies(cache)]

(***************************************************************************)
(* ClaudeClient._should_perform_new_search                                 *)
(***************************************************************************)

RequestTriggers == {"show me", "find", "search for", "get", "need"}
QuestionTriggers == {"what", "how", "can you", "build", "recommend", "suggest"}
StrategicKeywords == {"spread damage", "draw power", "energy acceleration", "disruption", "stall"}

TrainerThreshold == 10
EnergyThreshold == 5
PokemonThreshold == 20

\* lines 523-524: trainer cards asked for and few cached
RuleTrainer(m, cache) ==
    /\ AnyIn({"trainer", "support", "item"}, m)
    /\ GetDeckProgress(cache).cards_by_type.Trainer < TrainerThreshold

\* lines 527-528
RuleEnergy(m, cache) ==
    /\ Contains(m, "energy")
    /\ GetDeckProgress(cache).cards_by_type.Energy < EnergyThreshold

\* lines 531-532
RulePokemon(m, cache) ==
    /\ AnyIn({"pokemon", "attacker"}, m)
    /\ GetDeckProgress(cache).cards_by_type.Pokemon < PokemonThreshold

\* lines 535-541: a strategy of the message that no entry of search_history mentions
RuleStrategy(m, cache) ==
    \E strategy \in StrategicKeywords :
        /\ Contains(m, strategy)
        /\ ~\E i \in 1..Len(cache.search_history) :
               Contains(Lower(cache.search_history[i]), strategy)

\* lines 517-541: the block under the request triggers returns True
RequestRule(m, cache) ==
    /\ AnyIn(RequestTriggers, m)
    /\ \/ RuleTrainer(m, cache)
       \/ RuleEnergy(m, cache)
       \/ RulePokemon(m, cache)
       \/ RuleStrategy(m, cache)

\* the policy without the empty-cache rule
ShouldSearchNoSeed(user_message, cache) ==
    LET m == Lower(user_message)
    IN  IF RequestRule(m, cache) THEN TRUE
        ELSE IF AnyIn(QuestionTriggers, m) THEN FALSE
        ELSE Len(cache.discovered_cards) < DeckSize

\* the policy with the default taken before the question triggers, 60 included
ShouldSearchDefaultFirst(user_message, cache) ==
    LET m == Lower(user_message)
    IN  IF Len(cache.discovered_cards) = 0 THEN TRUE
        ELSE IF RequestRule(m, cache) THEN TRUE
        ELSE IF Len(cache.discovered_cards) <= DeckSize THEN TRUE
        ELSE ~AnyIn(QuestionTriggers, m)

\* the policy with the question triggers decided before the request rule
ShouldSearchQuestionFirst(user_message, cache) ==
    LET m == Lower(user_message)
    IN  IF Len(cache.discovered_cards) = 0 THEN TRUE
        ELSE IF AnyIn(QuestionTriggers, m) THEN FALSE
        ELSE IF RequestRule(m, cache) THEN TRUE
        ELSE Len(cache.discovered_cards) < DeckSize

ShouldPerformNewSearch(user_message, cache) ==
    LET m == Lower(user_message)
    IN  IF Len(cache.discovered_cards) = 0 THEN TRUE
        ELSE IF RequestRule(m, cache) THEN TRUE
        ELSE IF AnyIn(QuestionTriggers, m) THEN FALSE
        ELSE Len(cache.discovered_cards) < DeckSize

(***************************************************************************)
(* MemoryCacheManager                                                      *)
(***************************************************************************)

\* timedelta(hours=6)
CacheTimeout == 6

\* f"{user_id}_{deck_id or 'default'}"
CacheKey(user_id, deck_id) ==
    user_id \o "_" \o (IF deck_id = None \/ deck_id = Some("") THEN "default" ELSE deck_id[1])

Without(reg, key) == [k \in DOMAIN reg \ {key} |-> reg[k]]

With(reg, key, cache) == [k \in DOMAIN reg \cup {key} |-> IF k = key THEN cache ELSE reg[k]]

\* Live with the boundary included: a cache updated exactly 6 hours ago is kept
LiveInclusive(cache, t) == t - cache.last_updated <= CacheTimeout

\* line 273: the cache is not expired at time t
Live(cache, t) == t - cache.last_updated < CacheTimeout

\* get_cache with a sweep: every lookup first drops all the expired entries
GetCacheSweep(reg, user_id, deck_id, t) ==
    LET key == CacheKey(user_id, deck_id)
        swept == [k \in {x \in DOMAIN reg : Live(reg[x], t)} |-> reg[k]]
    IN  IF key \in DOMAIN swept
        THEN [reg |-> swept, cache |-> swept[key], fresh |-> FALSE]
        ELSE LET c == NewCache(user_id, deck_id, t)
             IN  [reg |-> With(swept, key, c), cache |-> c, fresh |-> TRUE]

\* get_cache with a sliding expiry: a lookup of a live cache renews it
GetCacheTouch(reg, user_id, deck_id, t) ==
    LET key == CacheKey(user_id, deck_id)
    IN  IF key \in DOMAIN reg /\ Live(reg[key], t)
        THEN LET c == [reg[key] EXCEPT !.last_updated = t]
             IN  [reg |-> With(reg, key, c), cache |-> c, fresh |-> FALSE]
        ELSE LET c == NewCache(user_id, deck_id, t)
             IN  [reg |-> With(reg, key, c), cache |-> c, fresh |-> TRUE]

\* MemoryCacheManager.get_cache on registry reg at time t:
\* [reg |-> the registry after, cache |-> the cache returned, fresh |-> it was created]
GetCacheOn(reg, user_id, deck_id, t) ==
    LET key == CacheKey(user_id, deck_id)
    IN  IF key \in DOMAIN reg /\ Live(reg[key], t)
        THEN [reg |-> reg, cache |-> reg[key], fresh |-> FALSE]
        ELSE LET c == NewCache(user_id, deck_id, t)
             IN  [reg |-> With(reg, key, c), cache |-> c, fresh |-> TRUE]

\* sum(len(c.discovered_cards) for c in self.caches.values()), over the keys ks
RECURSIVE SumCards(_, _)
SumCards(reg, ks) ==
    IF ks = {} THEN 0
    ELSE LET k == CHOOSE x \in ks : TRUE
         IN  Len(reg[k].discovered_cards) + SumCards(reg, ks \ {k})

\* MemoryCacheManager.get_cache_stats
GetCacheStats(reg, t) ==
    [total_caches |-> Cardinality(DOMAIN reg),
     active_caches |-> Cardinality({k \in DOMAIN reg : Live(reg[k], t)}),
     total_cards_cached |-> SumCards(reg, DOMAIN reg),
     cache_keys |-> DOMAIN reg]

(***************************************************************************)
(* State                                                                   *)
(*   caches  MemoryCacheManager.caches: cache key -> MemoryCache           *)
(*   now     datetime.now(), in hours                                      *)
(*   ret     the last call: its name, arguments and result                 *)
(*   ghost   per registry entry, what was passed to it since it was        *)
(*           created (history variable, not program state)                 *)
(*   req     the request of generate_response_with_database_access in      *)
(*           flight, <<>> when there is none, else <<r>> with r.handle the *)
(*           local memory_cache: <<>> while it is the object the registry  *)
(*           holds under r.key, <<cache>> once the registry dropped it     *)
(***************************************************************************)

NoReq == <<>>

\* the history of a cache just created
NoHistory == [ids |-> {}, log |-> <<>>, scored |-> <<>>, searched |-> <<>>, order |-> <<>>]

\* the non-empty card ids of a batch, read off the input
BatchIds(cards) ==
    { cards[i]["card_id"] : i \in { j \in 1..Len(cards) :
                                      "card_id" \in DOMAIN cards[j] /\ cards[j]["card_id"] # "" } }

\* the ids in the order in which they were first passed
RECURSIVE FirstSeen(_, _)
FirstSeen(order, cards) ==
    IF cards = <<>> THEN order
    ELSE LET c == Head(cards)
             known == { order[i] : i \in 1..Len(order) }
         IN  IF "card_id" \in DOMAIN c
             THEN IF c["card_id"] # "" /\ c["card_id"] \notin known
                  THEN FirstSeen(Append(order, c["card_id"]), Tail(cards))
                  ELSE FirstSeen(order, Tail(cards))
             ELSE FirstSeen(order, Tail(cards))

\* the history of an entry after the records cards were stored with
\* search_context under strategy; logged: the call reached line 69
Recorded(h, cards, search_context, strategy, logged) ==
    [h EXCEPT !.ids = @ \cup BatchIds(cards),
              !.log = IF logged THEN Append(@, search_context) ELSE @,
              !.order = FirstSeen(@, cards),
              !.scored = [id \in h.ids \cup BatchIds(cards) |->
                             IF id \in BatchIds(cards) THEN strategy ELSE h.scored[id]]]

HistoryOf(key, fresh) == IF fresh \/ key \notin DOMAIN ghost THEN NoHistory ELSE ghost[key]

\* the registry entry of key before a call, as a list of at most one cache
Before(key) == IF key \in DOMAIN caches THEN <<caches[key]>> ELSE <<>>

\* the request r after the registry reg dropped (replaced = TRUE) the object it
\* held under key: a local memory_cache that still refers to it keeps the object
Detach(r, reg, key, replaced) ==
    IF r = <<>> THEN r
    ELSE IF r[1].key = key /\ r[1].handle = <<>> /\ replaced /\ key \in DOMAIN reg
         THEN <<[r[1] EXCEPT !.handle = <<reg[key]>>]>>
         ELSE r

Init ==
    /\ caches = <<>>
    /\ now = 0
    /\ ret = [op |-> "init"]
    /\ ghost = <<>>
    /\ req = NoReq

\* time passes
Tick(d) ==
    /\ now' = now + d
    /\ UNCHANGED <<caches, ret, ghost, req>>

\* manager.get_cache(user_id, deck_id)
GetCache(user_id, deck_id) ==
    LET key == CacheKey(user_id, deck_id)
        g == GetCacheOn(caches, user_id, deck_id, now)
    IN  /\ caches' = g.reg
        /\ ghost' = With(ghost, key, HistoryOf(key, g.fresh))
        /\ ret' = [op |-> "get_cache", key |-> key, user_id |-> user_id, deck_id |-> deck_id,
                   fresh |-> g.fresh, before |-> Before(key), cache |-> g.cache, at |-> now]
        /\ req' = Detach(req, caches, key, g.fresh)
        /\ UNCHANGED now

\* manager.add_cards_to_cache(user_id, cards, search_context, deck_id)
AddCardsToCache(user_id, cards, search_context, deck_id) ==
    LET key == CacheKey(user_id, deck_id)
        g == GetCacheOn(caches, user_id, deck_id, now)
        r == AddDiscoveredCards(g.cache, cards, search_context, now)
    IN  /\ caches' = With(g.reg, key, r.cache)
        /\ ghost' = With(ghost, key, Recorded(HistoryOf(key, g.fresh), Processed(cards),
                                              search_context, g.cache.strategy_context,
                                              ~RaisesIn(cards)))
        /\ ret' = [op |-> "add_cards", key |-> key, user_id |-> user_id, deck_id |-> deck_id,
                   cards |-> cards, search_context |-> search_context, fresh |-> g.fresh,
                   before |-> Before(key), passed |-> HistoryOf(key, g.fresh),
                   out |-> r.out, raised |-> RaisesIn(cards), at |-> now]
        /\ req' = Detach(req, caches, key, g.fresh)
        /\ UNCHANGED now

\* update_strategy_context that scores every stored discovery again
UpdateStrategyRescore(user_id, strategy, deck_id) ==
    LET key == CacheKey(user_id, deck_id)
        g == GetCacheOn(caches, user_id, deck_id, now)
        rescored == [i \in 1..Len(g.cache.discovered_cards) |->
                        [g.cache.discovered_cards[i] EXCEPT !.relevance_score =
                            CalculateRelevance(g.cache.discovered_cards[i].card_data,
                                               g.cache.discovered_cards[i].search_context,
                                               strategy)]]
    IN  /\ caches' = With(g.reg, key, [g.cache EXCEPT !.strategy_context = strategy,
                                                      !.discovered_cards = rescored,
                                                      !.last_updated = now])
        /\ ghost' = With(ghost, key, HistoryOf(key, g.fresh))
        /\ ret' = [op |-> "update_strategy_context", key |-> key, strategy |-> strategy,
                   fresh |-> g.fresh, before |-> Before(key), at |-> now]
        /\ req' = Detach(req, caches, key, g.fresh)
        /\ UNCHANGED now

\* manager.update_strategy_context(user_id, strategy, deck_id)
UpdateStrategyContext(user_id, strategy, deck_id) ==
    LET key == CacheKey(user_id, deck_id)
        g == GetCacheOn(caches, user_id, deck_id, now)
    IN  /\ caches' = With(g.reg, key, [g.cache EXCEPT !.strategy_context = strategy,
                                                      !.last_updated = now])
        /\ ghost' = With(ghost, key, HistoryOf(key, g.fresh))
        /\ ret' = [op |-> "update_strategy_context", key |-> key, strategy |-> strategy,
                   fresh |-> g.fresh, before |-> Before(key), at |-> now]
        /\ req' = Detach(req, caches, key, g.fresh)
        /\ UNCHANGED now

\* manager.clear_cache(user_id, deck_id)
ClearCache(user_id, deck_id) ==
    LET key == CacheKey(user_id, deck_id)
    IN  /\ caches' = Without(caches, key)
        /\ ghost' = Without(ghost, key)
        /\ ret' = [op |-> "clear_cache", key |-> key, user_id |-> user_id, deck_id |-> deck_id,
                   before |-> Before(key), at |-> now]
        /\ req' = Detach(req, caches, key, TRUE)
        /\ UNCHANGED now

\* manager.get_cache_stats()
Stats ==
    /\ ret' = [op |-> "get_cache_stats", out |-> GetCacheStats(caches, now), at |-> now]
    /\ UNCHANGED <<caches, now, ghost, req>>

\* cache.identify_synergies() on the cache held under key
IdentifySynergies(key) ==
    /\ key \in DOMAIN caches
    /\ caches' = [caches EXCEPT ![key] = IdentifySynergiesOn(@)]
    /\ ret' = [op |-> "identify_synergies", key |-> key, before |-> Before(key),
               out |-> Synergies(caches[key]), at |-> now]
    /\ UNCHANGED <<now, ghost, req>>

\* cache.get_cache_summary() on the cache held under key: the progress is read
\* first (line 219), then identify_synergies stores the patterns (line 220)
GetCacheSummary(key) ==
    /\ key \in DOMAIN caches
    /\ caches' = [caches EXCEPT ![key] = IdentifySynergiesOn(@)]
    /\ ret' = [op |-> "get_cache_summary", key |-> key, before |-> Before(key),
               progress |-> GetDeckProgress(caches[key]),
               synergies |-> Len(Synergies(caches[key])), at |-> now]
    /\ UNCHANGED <<now, ghost, req>>

\* cache.get_deck_progress() on the cache held under key
DeckProgress(key) ==
    /\ key \in DOMAIN caches
    /\ ret' = [op |-> "get_deck_progress", key |-> key, out |-> GetDeckProgress(caches[key]),
               at |-> now]
    /\ UNCHANGED <<caches, now, ghost, req>>

\* cache.get_top_cards_by_relevance(limit) on the cache held under key
TopCards(key, limit) ==
    /\ key \in DOMAIN caches
    /\ ret' = [op |-> "get_top_cards_by_relevance", key |-> key, limit |-> limit,
               out |-> GetTopCardsByRelevance(caches[key], limit), at |-> now]
    /\ UNCHANGED <<caches, now, ghost, req>>

\* cache.get_cards_by_type(card_type) on the cache held under key
CardsByType(key, card_type) ==
    /\ key \in DOMAIN caches
    /\ ret' = [op |-> "get_cards_by_type", key |-> key, card_type |-> card_type,
               out |-> GetCardsByType(caches[key], card_type), at |-> now]
    /\ UNCHANGED <<caches, now, ghost, req>>

\* cache.get_cards_by_synergy(tag) on the cache held under key
CardsBySynergy(key, tag) ==
    /\ key \in DOMAIN caches
    /\ ret' = [op |-> "get_cards_by_synergy", key |-> key, tag |-> tag,
               out |-> GetCardsBySynergy(caches[key], tag), at |-> now]
    /\ UNCHANGED <<caches, now, ghost, req>>

\* cache.suggest_next_search() on the cache held under key
SuggestNext(key) ==
    /\ key \in DOMAIN caches
    /\ ret' = [op |-> "suggest_next_search", key |-> key,
               out |-> SuggestNextSearch(caches[key]), at |-> now]
    /\ UNCHANGED <<caches, now, ghost, req>>

\* _should_perform_new_search(user_message, cache) on the cache held under key
ShouldSearch(key, user_message) ==
    /\ key \in DOMAIN caches
    /\ ret' = [op |-> "should_search", key |-> key, user_message |-> user_message,
               out |-> ShouldPerformNewSearch(user_message, caches[key]), at |-> now]
    /\ UNCHANGED <<caches, now, ghost, req>>

(***************************************************************************)
(* generate_response_with_database_access. The coroutine gives up control  *)
(* at its awaits, the card search (line 353) and the model call (line      *)
(* 268): the code between two awaits is one action. st = [reg, handle,     *)
(* hist] is the registry, the local memory_cache and the history variable  *)
(* threaded through the calls of one action.                               *)
(***************************************************************************)

\* the cache the local memory_cache refers to
Handle(handle, reg, key) == IF handle = <<>> THEN reg[key] ELSE handle[1]

HistIn(hist, key, fresh) == IF fresh \/ key \notin DOMAIN hist THEN NoHistory ELSE hist[key]

HandleAfter(st, key, fresh) ==
    IF st.handle = <<>> /\ fresh THEN <<st.reg[key]>> ELSE st.handle

\* lines 358-364: the results of a search go to the cache when there are any
ReqAdd(st, r, results, t) ==
    IF ~r.should_search \/ results = <<>> THEN st
    ELSE LET g == GetCacheOn(st.reg, r.user_id, r.deck_id, t)
             a == AddDiscoveredCards(g.cache, results, r.user_message, t)
         IN  [reg |-> With(g.reg, r.key, a.cache),
              handle |-> HandleAfter(st, r.key, g.fresh),
              hist |-> With(st.hist, r.key,
                            Recorded(HistIn(st.hist, r.key, g.fresh), results, r.user_message,
                                     g.cache.strategy_context, TRUE))]

\* lines 369-374: the strategy of the deck state, when it has one
ReqStrategy(st, r, t) ==
    IF r.strategy = "" THEN st
    ELSE LET g == GetCacheOn(st.reg, r.user_id, r.deck_id, t)
         IN  [reg |-> With(g.reg, r.key, [g.cache EXCEPT !.strategy_context = r.strategy,
                                                          !.last_updated = t]),
              handle |-> HandleAfter(st, r.key, g.fresh),
              hist |-> With(st.hist, r.key, HistIn(st.hist, r.key, g.fresh))]

\* identify_synergies on the local memory_cache
ReqSynergies(st, r) ==
    IF st.handle = <<>>
    THEN [st EXCEPT !.reg = [@ EXCEPT ![r.key] = IdentifySynergiesOn(@)]]
    ELSE [st EXCEPT !.handle = <<IdentifySynergiesOn(@[1])>>]

\* _build_conversation_context, lines 116-117 and 159: the summary and the
\* synergies of a memory_cache that holds cards
ReqContext(st, r) ==
    IF Len(Handle(st.handle, st.reg, r.key).discovered_cards) > 0 THEN ReqSynergies(st, r)
    ELSE st

\* lines 369-390, up to the await of the model call
ReqPrepare(st, r, t) == ReqContext(ReqStrategy(st, r, t), r)

\* lines 342-353: get_cache and the decision; without a search the handler runs
\* on to the model call
ReqStart(user_id, deck_id, user_message, strategy) ==
    LET key == CacheKey(user_id, deck_id)
        g == GetCacheOn(caches, user_id, deck_id, now)
        r == [user_id |-> user_id, deck_id |-> deck_id, key |-> key,
              user_message |-> user_message, strategy |-> strategy,
              should_search |-> ShouldPerformNewSearch(user_message, g.cache),
              results |-> <<>>, handle |-> <<>>, stage |-> "search"]
        st0 == [reg |-> g.reg, handle |-> <<>>, hist |-> With(ghost, key, HistoryOf(key, g.fresh))]
        st == IF r.should_search THEN st0 ELSE ReqPrepare(st0, r, now)
    IN  /\ req = NoReq
        /\ caches' = st.reg
        /\ ghost' = st.hist
        /\ req' = <<[r EXCEPT !.handle = st.handle,
                              !.stage = IF r.should_search THEN "search" ELSE "respond"]>>
        /\ ret' = [op |-> "request_start", key |-> key, user_message |-> user_message,
                   fresh |-> g.fresh, before |-> Before(key), out |-> r.should_search, at |-> now]
        /\ UNCHANGED now

\* lines 353-390: the search returned results
ReqSearched(results) ==
    /\ req # NoReq
    /\ req[1].stage = "search"
    /\ LET r == req[1]
           st0 == [reg |-> caches, handle |-> r.handle, hist |-> ghost]
           st1 == ReqAdd(st0, r, results, now)
           st == ReqPrepare(st1, r, now)
       IN  /\ caches' = st.reg
           /\ ghost' = IF r.key \in DOMAIN st.hist
                        THEN [st.hist EXCEPT ![r.key].searched = Append(@, r.user_message)]
                        ELSE st.hist
           /\ req' = <<[r EXCEPT !.handle = st.handle, !.results = results,
                                 !.stage = "respond"]>>
           /\ ret' = [op |-> "request_searched", key |-> r.key,
                      user_message |-> r.user_message, results |-> results,
                      before |-> Before(r.key), at |-> now]
           /\ UNCHANGED now

\* lines 393-399: the model answered; the summary and the count of the reply
ReqRespond ==
    /\ req # NoReq
    /\ req[1].stage = "respond"
    /\ LET r == req[1]
           st0 == [reg |-> caches, handle |-> r.handle, hist |-> ghost]
           st == ReqSynergies(st0, r)
           cache == Handle(r.handle, caches, r.key)
       IN  /\ caches' = st.reg
           /\ ret' = [op |-> "request", key |-> r.key, user_message |-> r.user_message,
                      should_search |-> r.should_search, cards_found |-> r.results,
                      progress |-> GetDeckProgress(cache),
                      total_discovered_cards |-> Len(cache.discovered_cards),
                      attached |-> (r.handle = <<>>), at |-> now]
           /\ req' = NoReq
           /\ UNCHANGED <<now, ghost>>

(***************************************************************************)
(* _execute_intelligent_search, strategy 1: the pages of the broad search  *)
(***************************************************************************)

\* strategic_searches, in the order of the dict
StrategicSearches ==
    << [strategy |-> "spread damage",
        keywords |-> <<"damage to each", "damage counters on each", "all opponent's pokemon",
                       "each of your opponent's pokemon", "bench damage">>],
       [strategy |-> "draw power",
        keywords |-> <<"draw cards", "draw until you have", "search your deck", "look at">>],
       [strategy |-> "energy acceleration",
        keywords |-> <<"attach energy", "energy from your deck",
                       "energy from your discard pile">>],
       [strategy |-> "disruption",
        keywords |-> <<"discard", "shuffle", "opponent can't", "prevent", "choose a card">>],
       [strategy |-> "search",
        keywords |-> <<"search your deck", "search your discard pile", "look at">>] >>

\* search_cards(limit=1000, ...)
PageLimit == 1000
\* if page > 10: break
MaxPages == 10

\* strategy in user_lower or any(keyword in user_lower for keyword in keywords)
Detected(entry, user_lower) ==
    IF Contains(user_lower, entry.strategy) THEN TRUE
    ELSE \E k \in Range(entry.keywords) : Contains(user_lower, k)

\* the strategies the for loop enters, in its order, from position i on
Candidates(user_lower, i) ==
    SelectSeq([j \in 1..(Len(StrategicSearches) - i + 1) |-> StrategicSearches[i + j - 1]],
              LAMBDA e : Detected(e, user_lower))

\* the for loop reaches the next strategy it detects (page = 0, nothing
\* collected), or ends when there is none left
Entered(user_message, left, tried) ==
    IF left = <<>>
    THEN [req |-> NoReq,
          out |-> [op |-> "strategic_search", user_message |-> user_message,
                   found_strategic |-> FALSE, strategy |-> "", requested |-> 0,
                   collected |-> 0, tried |-> tried]]
    ELSE [req |-> <<[stage |-> "paging", key |-> "", handle |-> <<>>,
                     user_message |-> user_message, strategy |-> Head(left).strategy,
                     left |-> Tail(left), page |-> 0, requested |-> 0, collected |-> 0,
                     tried |-> tried + 1]>>,
          out |-> [op |-> "strategic_search_start", user_message |-> user_message,
                   strategy |-> Head(left).strategy]]

\* lines 408-430: the call, up to the first request of a page
SearchStart(user_message) ==
    LET e == Entered(user_message, Candidates(Lower(user_message), 1), 0)
    IN  /\ req = NoReq
        /\ req' = e.req
        /\ ret' = e.out
        /\ UNCHANGED <<caches, now, ghost>>

\* lines 432-453: one turn of the while loop, search_cards returning n cards
PageReply(n) ==
    /\ req # NoReq
    /\ req[1].stage = "paging"
    /\ LET r == req[1]
           collected == r.collected + n
           requested == r.requested + 1
           page == r.page + 1
           more == IF n = 0 THEN FALSE
                   ELSE IF n < PageLimit THEN FALSE
                   ELSE ~(page > MaxPages)
       IN  IF more
           THEN /\ req' = <<[r EXCEPT !.page = page, !.requested = requested,
                                      !.collected = collected]>>
                /\ ret' = [op |-> "page", strategy |-> r.strategy, page |-> r.page, size |-> n]
           ELSE /\ req' = NoReq
                /\ ret' = [op |-> "strategic_search", user_message |-> r.user_message,
                           found_strategic |-> TRUE, strategy |-> r.strategy,
                           requested |-> requested, collected |-> collected,
                           tried |-> r.tried]
    /\ UNCHANGED <<caches, now, ghost>>

\* lines 464-466: search_cards raises; the for loop continues with the next
\* strategy it detects
PageFails ==
    /\ req # NoReq
    /\ req[1].stage = "paging"
    /\ LET e == Entered(req[1].user_message, req[1].left, req[1].tried)
       IN  /\ req' = e.req
           /\ ret' = e.out
    /\ UNCHANGED <<caches, now, ghost>>

(***************************************************************************)
(* add_discovered_cards called by two threads on one cache object          *)
(***************************************************************************)

\* req holds the two calls: mode is "threads" (no lock) or "atomic" (the calls
\* are serialised: one lock per key, or one event loop and no await inside
\* the method); calls[t] is the frame of thread t
Threads == {1, 2}
Idle == [pc |-> "idle", cards |-> <<>>, search_context |-> "", out |-> <<>>, slice |-> <<>>]

\* thread t takes a step whenever it is scheduled
CanRunUnlocked(t) == req # NoReq

\* thread t may take a step: always without a lock; under a lock only when no
\* other thread is inside the method
CanRun(t) ==
    /\ req # NoReq
    /\ IF req[1].mode = "threads" THEN TRUE
       ELSE \A u \in Threads \ {t} : req[1].calls[u].pc \in {"idle", "done"}

ThreadStep(t, pc, call, cache, out) ==
    /\ CanRun(t)
    /\ req[1].calls[t].pc = pc
    /\ req' = <<[req[1] EXCEPT !.calls[t] = call]>>
    /\ caches' = [caches EXCEPT ![req[1].key] = cache]
    /\ ret' = out
    /\ UNCHANGED now

\* line 44-46: thread t enters add_discovered_cards(cards, search_context)
ThreadCall(t, cards, search_context) ==
    /\ ThreadStep(t, "idle",
                  [pc |-> "loop", cards |-> cards, search_context |-> search_context,
                   out |-> <<>>, slice |-> <<>>],
                  caches[req[1].key], ret)
    /\ UNCHANGED ghost

\* lines 48-66: one turn of the loop
ThreadStore(t) ==
    LET c == req[1].calls[t]
        key == req[1].key
        st == AddOne([cache |-> caches[key], out |-> c.out], Head(c.cards),
                     c.search_context, now)
    IN  /\ CanRun(t)
        /\ c.cards # <<>>
        /\ ~Raises(Head(c.cards))
        /\ ThreadStep(t, "loop", [c EXCEPT !.cards = Tail(@), !.out = st.out], st.cache, ret)
        /\ ghost' = [ghost EXCEPT ![key] = Recorded(@, <<Head(c.cards)>>, c.search_context,
                                                    caches[key].strategy_context, FALSE)]

\* line 69: self.search_history.append(search_context)
ThreadAppend(t) ==
    LET c == req[1].calls[t]
        key == req[1].key
    IN  /\ CanRun(t)
        /\ c.cards = <<>>
        /\ ThreadStep(t, "loop", [c EXCEPT !.pc = "test"],
                      [caches[key] EXCEPT !.search_history = Append(@, c.search_context)], ret)
        /\ ghost' = [ghost EXCEPT ![key].log = Append(@, c.search_context)]

\* line 70: if len(self.search_history) > 20
ThreadTest(t) ==
    LET c == req[1].calls[t]
        cache == caches[req[1].key]
    IN  /\ CanRun(t)
        /\ ThreadStep(t, "test",
                      [c EXCEPT !.pc = IF Len(cache.search_history) > HistoryLimit
                                       THEN "slice" ELSE "stamp"],
                      cache, ret)
        /\ UNCHANGED ghost

\* line 71, right-hand side: self.search_history[-20:] is evaluated to a new list
ThreadSlice(t) ==
    LET c == req[1].calls[t]
        cache == caches[req[1].key]
    IN  /\ CanRun(t)
        /\ ThreadStep(t, "slice",
                      [c EXCEPT !.pc = "assign",
                                !.slice = LastN(cache.search_history, HistoryLimit)],
                      cache, ret)
        /\ UNCHANGED ghost

\* line 71, the assignment: the new list replaces the attribute
ThreadAssign(t) ==
    LET c == req[1].calls[t]
        cache == caches[req[1].key]
    IN  /\ CanRun(t)
        /\ ThreadStep(t, "assign", [c EXCEPT !.pc = "stamp", !.slice = <<>>],
                      [cache EXCEPT !.search_history = c.slice], ret)
        /\ UNCHANGED ghost

\* lines 73-74: last_updated and the return
ThreadStamp(t) ==
    LET c == req[1].calls[t]
        cache == caches[req[1].key]
    IN  /\ CanRun(t)
        /\ ThreadStep(t, "stamp", [c EXCEPT !.pc = "done"],
                      [cache EXCEPT !.last_updated = now],
                      [op |-> "thread_add", key |-> req[1].key, thread |-> t,
                       search_context |-> c.search_context, out |-> c.out, at |-> now])
        /\ UNCHANGED ghost

(***************************************************************************)
(* Inputs of the registry specification                                    *)
(***************************************************************************)

\* two attacks that both discard: the discard rule fires twice
Charizard ==
    [card_id |-> "c1", name |-> "Charizard", card_type |-> "Pokémon", types |-> <<"Fire">>,
     attacks |-> <<[name |-> "Burn", text |-> "Discard an Energy from this Pokemon"],
                   [name |-> "Blaze", text |-> "Discard the top card of your deck"]>>]

Arcanine ==
    [card_id |-> "c2", name |-> "Arcanine", card_type |-> "Pokémon", types |-> <<"Fire">>,
     abilities |-> <<[name |-> "Warm Up", text |-> "Draw a card"]>>,
     attacks |-> <<[name |-> "Bite", text |-> "Flip a coin"]>>]

Research ==
    [card_id |-> "c3", name |-> "Research", card_type |-> "Trainer", subtype |-> "Supporter"]

\* records that add_discovered_cards skips
EmptyId == [card_id |-> "", name |-> "Blank", card_type |-> "Trainer"]
NoId == [name |-> "Nameless", card_type |-> "Energy"]

Users == {"u1"}
Decks == {Some("d1")}
Batches == {<<>>, <<Arcanine, EmptyId, Research>>, <<Research, NoId, Research>>}
Contexts == {"find fire pokémon"}
Strategies == {"Fire charizard"}

MaxTime == 7
MaxAdds == 2
TickSteps == {CacheTimeout - 1, CacheTimeout, CacheTimeout + 1}

\* the bound on the calls that add to one cache
CanAdd(user_id, deck_id, max) ==
    LET key == CacheKey(user_id, deck_id)
    IN  IF key \notin DOMAIN caches THEN TRUE
        ELSE IF ~Live(caches[key], now) THEN TRUE
        ELSE Len(caches[key].search_history) < max

\* The registry over time: creation, expiry, clear and the calls that change a cache
Next ==
    \/ \E d \in TickSteps : now + d <= MaxTime /\ Tick(d)
    \/ \E u \in Users, d \in Decks : GetCache(u, d)
    \/ \E u \in Users, d \in Decks, b \in Batches, c \in Contexts :
          CanAdd(u, d, MaxAdds) /\ AddCardsToCache(u, b, c, d)
    \/ \E u \in Users, d \in Decks, s \in Strategies : UpdateStrategyContext(u, s, d)
    \/ \E u \in Users, d \in Decks : ClearCache(u, d)
    \/ \E k \in DOMAIN caches : IdentifySynergies(k)
    \/ \E k \in DOMAIN caches : GetCacheSummary(k)
    \/ \E k \in DOMAIN caches, m \in {"what can you build"} : ShouldSearch(k, m)

Spec == Init /\ [][Next]_vars

(***************************************************************************)
(* Scoring and synergies: one cache, no expiry, the cards that exercise    *)
(* the scoring and the tag rules                                           *)
(***************************************************************************)

\* a second printing of Charizard: another card id, the same name
CharizardTwin ==
    [card_id |-> "c5", name |-> "Charizard", card_type |-> "Pokémon", types |-> <<"Fire">>]

ScoreBatches ==
    {<<Charizard>>, <<Arcanine, EmptyId>>, <<Research, NoId, Research>>, <<Charizard, Arcanine>>,
     <<CharizardTwin>>}
ScoreContexts == {"find fire pokémon", "What trainer cards draw"}
ScoreStrategies == {"", "Fire charizard"}

MaxScoreAdds == 2

NextScore ==
    \/ \E b \in ScoreBatches, c \in ScoreContexts :
          CanAdd("u1", Some("d1"), MaxScoreAdds) /\ AddCardsToCache("u1", b, c, Some("d1"))
    \/ \E s \in ScoreStrategies : UpdateStrategyContext("u1", s, Some("d1"))
    \/ ClearCache("u1", Some("d1"))
    \/ \E k \in DOMAIN caches : IdentifySynergies(k)
    \/ \E k \in DOMAIN caches : GetCacheSummary(k)
    \/ \E k \in DOMAIN caches : DeckProgress(k)

SpecScore == Init /\ [][NextScore]_vars

(***************************************************************************)
(* The search decision: caches filled up to the thresholds of the policy   *)
(***************************************************************************)

Digits == <<"0", "1", "2", "3", "4", "5", "6", "7", "8", "9">>

\* str(n)
RECURSIVE NumStr(_)
NumStr(n) == IF n < 10 THEN Digits[n + 1] ELSE NumStr(n \div 10) \o Digits[(n % 10) + 1]

\* n cards of one card type, with ids prefix1 .. prefixn, as a search returns them
CardsOfType(card_type, prefix, n) ==
    [i \in 1..n |-> [card_id |-> prefix \o NumStr(i), name |-> "Card " \o prefix \o NumStr(i),
                     card_type |-> card_type]]

\* what a search returns: p creature cards, t trainer cards and e energy cards
Mix(p, t, e) ==
    CardsOfType("Pokémon", "p", p) \o CardsOfType("Trainer", "t", t) \o CardsOfType("Energy", "e", e)

PolicyBatches ==
    {Mix(1, 0, 0), Mix(19, 9, 4), Mix(20, 10, 5), Mix(46, 9, 4), Mix(46, 9, 5), Mix(50, 10, 4),
     Mix(19, 36, 5)}
PolicyContexts == {"fire deck", "Find STALL cards"}
PolicyMessages ==
    {"fire deck", "what can you build", "What trainer cards do I need", "find stall cards",
     "show me energy and pokemon attackers", "how to target"}

\* a registry whose cache was filled by one add_cards_to_cache call at time 0
InitPolicy ==
    \E b \in PolicyBatches, c \in PolicyContexts :
        LET key == CacheKey("u1", None)
            g == GetCacheOn(<<>>, "u1", None, 0)
            r == AddDiscoveredCards(g.cache, b, c, 0)
        IN  /\ caches = With(g.reg, key, r.cache)
            /\ ghost = With(<<>>, key, Recorded(NoHistory, b, c, g.cache.strategy_context, TRUE))
            /\ now = 0
            /\ ret = [op |-> "init"]
            /\ req = NoReq

NextPolicy ==
    \/ \E d \in TickSteps : now + d <= MaxTime /\ Tick(d)
    \/ GetCache("u1", None)
    \/ ClearCache("u1", None)
    \/ \E k \in DOMAIN caches, m \in PolicyMessages : ShouldSearch(k, m)

SpecPolicy == InitPolicy /\ [][NextPolicy]_vars

(***************************************************************************)
(* One long session on one cache: searches with distinct contexts and      *)
(* requests that ask for a strategic concept                               *)
(***************************************************************************)

MaxCalls == 25
MaxSearches == 2

SessionKey == CacheKey("u1", None)

\* the calls that added to the cache of the session, and the searches made for it
SessionLog == IF SessionKey \in DOMAIN ghost THEN ghost[SessionKey].log ELSE <<>>
SessionSearched == IF SessionKey \in DOMAIN ghost THEN ghost[SessionKey].searched ELSE <<>>

\* the n-th search context of the session
SessionMsg(n) == "fire deck " \o NumStr(n)

StallMessage == "can you find stall cards"
SessionResults == {<<>>, <<Research>>}
SessionStrategies == {"", "Stall"}

NextSession ==
    \/ /\ req = NoReq
       /\ Len(SessionLog) < MaxCalls
       /\ AddCardsToCache("u1", <<Arcanine>>, SessionMsg(Len(SessionLog) + 1), None)
    \/ /\ Len(SessionLog) < MaxCalls
       /\ Len(SessionSearched) < MaxSearches
       /\ \E s \in SessionStrategies : ReqStart("u1", None, StallMessage, s)
    \/ \E results \in SessionResults : ReqSearched(results)
    \/ ReqRespond
    \/ \E k \in DOMAIN caches : req = NoReq /\ ShouldSearch(k, StallMessage)

SpecSession == Init /\ [][NextSession]_vars

(***************************************************************************)
(* Sparse and foreign card records: a record with nothing but its id, and  *)
(* a card whose type label and attack text do not use the game's words     *)
(***************************************************************************)

\* every optional field absent
Bare == [card_id |-> "c4"]

Emberpup ==
    [card_id |-> "c1", name |-> "Emberpup", card_type |-> "Creature", types |-> <<"Fire">>,
     attacks |-> <<[name |-> "Burn", text |-> "damage to each opponent creature"]>>]

CardBatches == {<<Bare>>, <<Emberpup>>, <<Bare, NoId, Emberpup, Arcanine>>}
CardContexts == {"", "looking for fire attackers", "Creature deck"}
CardStrategies == {"", "ember burn"}

MaxCardAdds == 2
MaxCardTime == 1

NextCards ==
    \/ now < MaxCardTime /\ Tick(1)
    \/ \E b \in CardBatches, c \in CardContexts :
          CanAdd("u1", Some("d1"), MaxCardAdds) /\ AddCardsToCache("u1", b, c, Some("d1"))
    \/ \E s \in CardStrategies : UpdateStrategyContext("u1", s, Some("d1"))
    \/ ClearCache("u1", Some("d1"))
    \/ \E k \in DOMAIN caches : IdentifySynergies(k)

SpecCards == Init /\ [][NextCards]_vars

(***************************************************************************)
(* One session that is written and then read: the order of the cards by    *)
(* relevance, the overwrite of an id by another record, and what the reads *)
(* leave alone                                                             *)
(***************************************************************************)

MaxReadAdds == 2

NextReads ==
    \/ \E d \in TickSteps : now + d <= MaxTime /\ Tick(d)
    \/ GetCache("u1", None)
    \/ \E b \in {<<Emberpup, Arcanine>>, <<Emberpup>>, <<Charizard>>},
          c \in {"Creature deck", "find fire pokémon"} :
          CanAdd("u1", None, MaxReadAdds) /\ AddCardsToCache("u1", b, c, None)
    \/ \E s \in {"charizard burn"} : UpdateStrategyContext("u1", s, None)
    \/ \E k \in DOMAIN caches, n \in {0, 1, 3} : TopCards(k, n)
    \/ \E k \in DOMAIN caches, ty \in {"Pokémon", "Creature"} : CardsByType(k, ty)
    \/ \E k \in DOMAIN caches, tag \in {"type_fire"} : CardsBySynergy(k, tag)
    \/ \E k \in DOMAIN caches : SuggestNext(k)
    \/ \E k \in DOMAIN caches : DeckProgress(k)
    \/ \E k \in DOMAIN caches, m \in {"what can you build"} : ShouldSearch(k, m)

SpecReads == Init /\ [][NextReads]_vars

(***************************************************************************)
(* One request at a time while the clock runs: the search is awaited, so   *)
(* time passes between the lookup that opens a request and the calls that  *)
(* store its results                                                       *)
(***************************************************************************)

MaxRequestAdds == 2
MaxRequestSearches == 2

NextRequest ==
    \/ \E d \in {1, CacheTimeout - 1} : now + d <= MaxTime /\ Tick(d)
    \/ /\ req = NoReq
       /\ CanAdd("u1", None, MaxRequestAdds)
       /\ AddCardsToCache("u1", <<Arcanine>>, "fire deck", None)
    \/ /\ CanAdd("u1", None, MaxRequestAdds)
       /\ Len(SessionSearched) < MaxRequestSearches
       /\ \E s \in SessionStrategies : ReqStart("u1", None, StallMessage, s)
    \/ \E results \in SessionResults : ReqSearched(results)
    \/ ReqRespond

SpecRequest == Init /\ [][NextRequest]_vars

(***************************************************************************)
(* Batches with a record that holds null where a string or a list is       *)
(* expected                                                                *)
(***************************************************************************)

NullType == [card_id |-> "c6", name |-> "Ghost", nulls |-> {"card_type"}]
NullText ==
    [card_id |-> "c7", name |-> "Shade", card_type |-> "Pokémon",
     abilities |-> <<[name |-> "Veil", nulls |-> {"text"}]>>]

MaxFaultyAdds == 2

NextFaulty ==
    \/ \E d \in {1} : now + d <= MaxCardTime /\ Tick(d)
    \/ \E b \in {<<Research>>, <<Arcanine, NullType, Research>>, <<NullText>>},
          c \in {"find trainers", "find fire pokémon"} :
          CanAdd("u1", None, MaxFaultyAdds) /\ AddCardsToCache("u1", b, c, None)
    \/ ClearCache("u1", None)

SpecFaulty == Init /\ [][NextFaulty]_vars

(***************************************************************************)
(* The broad search against a provider that answers each request with an   *)
(* empty page, a short page or a full page, or fails                       *)
(***************************************************************************)

NextPages ==
    \/ \E m \in {"Find cards with spread damage",
                 "search your deck for draw power and disruption",
                 "show me fire pokemon"} : SearchStart(m)
    \/ \E n \in {0, PageLimit - 1, PageLimit} : PageReply(n)
    \/ PageFails

SpecPages == Init /\ [][NextPages]_vars

(***************************************************************************)
(* Two calls of add_discovered_cards on a cache whose history is at or     *)
(* just below its limit, with and without a lock                           *)
(***************************************************************************)

\* the cache and the history of a session after n searches that found nothing;
\* the test on next makes each call compute its state before the following one
RECURSIVE FillFrom(_, _, _)
FillFrom(st, i, n) ==
    IF i > n THEN st
    ELSE LET next == [cache |-> AddDiscoveredCards(st.cache, <<>>, SessionMsg(i), 0).cache,
                      hist |-> Recorded(st.hist, <<>>, SessionMsg(i), "", TRUE)]
         IN  IF Len(next.cache.search_history) = Len(next.hist.log)
             THEN FillFrom(next, i + 1, n)
             ELSE next

Filled(n) == FillFrom([cache |-> NewCache("u1", None, 0), hist |-> NoHistory], 1, n)

InitThreads ==
    \E n \in {HistoryLimit - 2, HistoryLimit - 1, HistoryLimit}, mode \in {"atomic", "threads"} :
        /\ caches = With(<<>>, SessionKey, Filled(n).cache)
        /\ ghost = With(<<>>, SessionKey, Filled(n).hist)
        /\ now = 0
        /\ ret = [op |-> "init"]
        /\ req = <<[stage |-> "threads", key |-> SessionKey, handle |-> <<>>, mode |-> mode,
                    calls |-> [t \in Threads |-> Idle]]>>

NextThreads ==
    \/ \E t \in Threads, b \in {<<>>, <<Research>>, <<Arcanine, Research>>} :
          ThreadCall(t, b, IF t = 1 THEN "first thread search" ELSE "second thread search")
    \/ \E t \in Threads : ThreadStore(t)
    \/ \E t \in Threads : ThreadAppend(t)
    \/ \E t \in Threads : ThreadTest(t)
    \/ \E t \in Threads : ThreadSlice(t)
    \/ \E t \in Threads : ThreadAssign(t)
    \/ \E t \in Threads : ThreadStamp(t)

SpecThreads == InitThreads /\ [][NextThreads]_vars

(***************************************************************************)
(* Pairs (user_id, deck_id) whose keys are built from ids that contain the *)
(* separator or the name of the default partition                          *)
(***************************************************************************)

Pairs ==
    {<<"u1", None>>, <<"u1", Some("default")>>, <<"u1_d1", None>>,
     <<"u1", Some("d1_default")>>, <<"u1", Some("d1")>>}

MaxPairAdds == 1

NextPairs ==
    \/ \E p \in Pairs : GetCache(p[1], p[2])
    \/ \E p \in Pairs, b \in {<<Research>>, <<Arcanine>>}, c \in {"find trainers"} :
          CanAdd(p[1], p[2], MaxPairAdds) /\ AddCardsToCache(p[1], b, c, p[2])
    \/ \E p \in Pairs : ClearCache(p[1], p[2])

SpecPairs == Init /\ [][NextPairs]_vars

(***************************************************************************)
(* Two keys of one user: what a call on one key does to the other, and     *)
(* what the statistics count                                               *)
(***************************************************************************)

KeyDecks == {None, Some("d1")}
KeyBatches == {<<>>, <<Research>>}
KeyContexts == {"find trainers"}
KeyStrategies == {"Fire charizard"}

MaxKeyAdds == 2

NextKeys ==
    \/ \E d \in TickSteps : now + d <= MaxTime /\ Tick(d)
    \/ \E d \in KeyDecks : GetCache("u1", d)
    \/ \E d \in KeyDecks, b \in KeyBatches, c \in KeyContexts :
          CanAdd("u1", d, MaxKeyAdds) /\ AddCardsToCache("u1", b, c, d)
    \/ \E d \in KeyDecks, s \in KeyStrategies : UpdateStrategyContext("u1", s, d)
    \/ \E d \in KeyDecks : ClearCache("u1", d)
    \/ Stats

SpecKeys == Init /\ [][NextKeys]_vars

(***************************************************************************)
(* Deck progress: one cache filled in blocks of thirty cards, below, at    *)
(* and above the size of a deck                                            *)
(***************************************************************************)

BlockSize == 30

\* the k-th block of cards a search returns: ids p<30(k-1)+1> .. p<30k>
Block(k) ==
    [i \in 1..BlockSize |->
        [card_id |-> "p" \o NumStr(BlockSize * (k - 1) + i),
         name |-> "Card " \o NumStr(BlockSize * (k - 1) + i),
         card_type |-> "Pokémon"]]

ProgressBlocks == {1, 2, 3}

MaxProgressAdds == 3

NextProgress ==
    \/ \E k \in ProgressBlocks :
          CanAdd("u1", None, MaxProgressAdds) /\ AddCardsToCache("u1", Block(k), "fire deck", None)
    \/ ClearCache("u1", None)
    \/ \E k \in DOMAIN caches : DeckProgress(k)
    \/ \E k \in DOMAIN caches : GetCacheSummary(k)

SpecProgress == Init /\ [][NextProgress]_vars

(***************************************************************************)
(* Claims                                                                  *)
(***************************************************************************)

\* the call of ret replaced or removed the registry entry of key
Replaced(r, key) ==
    /\ r.op \in {"get_cache", "add_cards", "update_strategy_context", "clear_cache"}
    /\ r.key = key
    /\ IF r.op = "clear_cache" THEN TRUE ELSE r.fresh

C1_KeysAreIdsPassed ==
    \A k \in DOMAIN caches :
        /\ CardIds(caches[k].discovered_cards) = ghost[k].ids
        /\ Len(caches[k].discovered_cards) = Cardinality(ghost[k].ids)

C1_LostOnlyByReplacement ==
    \A k \in DOMAIN caches :
        \A id \in CardIds(caches[k].discovered_cards) :
            (IF k \in DOMAIN caches' THEN id \notin CardIds(caches'[k].discovered_cards) ELSE TRUE)
                => /\ Replaced(ret', k)
                   /\ (ret'.op # "clear_cache" => now - caches[k].last_updated >= 6)

\* C1: the keys of discovered_cards are exactly the non-empty card ids passed to
\* add_cards since the cache was created, each once; an id leaves a cache only
\* when the whole cache is replaced on expiry or removed by clear.
C1_Accumulates == [](C1_KeysAreIdsPassed) /\ [][C1_LostOnlyByReplacement]_vars

\* a second add on a live cache, with a record without id and a card already cached
C1_Witness ==
    /\ ret.op = "add_cards"
    /\ ~ret.fresh
    /\ ret.before # <<>>
    /\ \E i \in 1..Len(ret.cards) : "card_id" \notin DOMAIN ret.cards[i]
    /\ \E i \in 1..Len(ret.cards) :
          /\ "card_id" \in DOMAIN ret.cards[i]
          /\ ret.cards[i]["card_id"] \in CardIds(ret.before[1].discovered_cards)
    /\ Cardinality(CardIds(caches[ret.key].discovered_cards)) >= 2

\* C2: get_cache returns the existing cache of the key iff now - last_updated < 6
\* hours; otherwise it returns a fresh one, empty and created now, which replaces
\* it in the registry. The cache returned is never expired when returned.
C2_GetOrCreate ==
    ret.op = "get_cache" =>
        /\ IF ret.before # <<>> /\ ret.at - ret.before[1].last_updated < 6
           THEN ret.cache = ret.before[1]
           ELSE /\ ret.cache.discovered_cards = <<>>
                /\ ret.cache.search_history = <<>>
                /\ ret.cache.created_at = ret.at
                /\ ret.cache.last_updated = ret.at
        /\ ret.at - ret.cache.last_updated < 6
        /\ caches[ret.key] = ret.cache

\* a cache with cards, last updated exactly 6 hours ago, is replaced by a fresh one
C2_Witness ==
    /\ ret.op = "get_cache"
    /\ ret.before # <<>>
    /\ ret.before[1].discovered_cards # <<>>
    /\ ret.at - ret.before[1].last_updated = 6
    /\ ret.cache.discovered_cards = <<>>
    /\ ret.cache.created_at = ret.at

\* the discovered cards of a cache that carry tag
CardsWithTag(cache, tag) ==
    { i \in 1..Len(cache.discovered_cards) : tag \in Range(cache.discovered_cards[i].synergy_tags) }

AllTags(cache) ==
    UNION { Range(cache.discovered_cards[i].synergy_tags) : i \in 1..Len(cache.discovered_cards) }

\* C5: a tag is in the identify_synergies() output iff it is attached to at least
\* two discovered cards; a tag attached to exactly one card never appears.
C5_SynergyThreshold ==
    ret.op = "identify_synergies" =>
        LET cache == caches[ret.key]
            shown == { ret.out[i].tag : i \in 1..Len(ret.out) }
        IN  \A tag \in AllTags(cache) \cup shown :
                tag \in shown <=> Cardinality(CardsWithTag(cache, tag)) >= 2

\* C6: adding the same record again (same data, same search_context, strategy
\* unchanged since it was scored) leaves one entry for the card_id, with the
\* relevance_score and synergy_tags stored by the first insertion.
C6_IdempotentReinsertion ==
    ret.op = "add_cards" =>
        LET cache == caches[ret.key]
        IN  /\ \A p, q \in 1..Len(ret.out) :
                  ret.out[p].card_data = ret.out[q].card_data =>
                      /\ ret.out[p].relevance_score = ret.out[q].relevance_score
                      /\ ret.out[p].synergy_tags = ret.out[q].synergy_tags
            /\ \A p \in 1..Len(ret.out) :
                  LET id == ret.out[p].card_id
                  IN  /\ Cardinality({ i \in 1..Len(cache.discovered_cards) :
                                         cache.discovered_cards[i].card_id = id }) = 1
                      /\ Lookup(cache.discovered_cards, id).relevance_score
                             = ret.out[p].relevance_score
                      /\ Lookup(cache.discovered_cards, id).synergy_tags = ret.out[p].synergy_tags
            /\ (~ret.fresh /\ ret.before # <<>>) =>
                  \A p \in 1..Len(ret.out) :
                      LET id == ret.out[p].card_id
                          old == ret.before[1]
                      IN  ( /\ id \in CardIds(old.discovered_cards)
                            /\ Lookup(old.discovered_cards, id).card_data = ret.out[p].card_data
                            /\ Lookup(old.discovered_cards, id).search_context = ret.search_context
                            /\ ret.passed.scored[id] = old.strategy_context )
                          => /\ ret.out[p].relevance_score
                                   = Lookup(old.discovered_cards, id).relevance_score
                             /\ ret.out[p].synergy_tags = Lookup(old.discovered_cards, id).synergy_tags

\* the same record is inserted a second time, in a cache whose strategy context
\* is set, and once more within the same call
C6_Witness ==
    /\ ret.op = "add_cards"
    /\ ~ret.fresh
    /\ ret.before # <<>>
    /\ ret.before[1].strategy_context # ""
    /\ \E p, q \in 1..Len(ret.out) :
          /\ p < q
          /\ ret.out[p].card_data = ret.out[q].card_data
          /\ ret.out[p].card_id \in CardIds(ret.before[1].discovered_cards)
          /\ Lookup(ret.before[1].discovered_cards, ret.out[p].card_id).card_data
                = ret.out[p].card_data
          /\ Lookup(ret.before[1].discovered_cards, ret.out[p].card_id).search_context
                = ret.search_context
          /\ ret.passed.scored[ret.out[p].card_id] = ret.before[1].strategy_context

\* C10: relevance_score = 1.0 + 0.5 (type label in the search context) + 0.3 (has
\* an ability) + 0.2 (has an attack) + 0.4 (a word of the strategy context in the
\* name) + 0.2 per distinct synergy tag, in tenths.
C10_Score ==
    \A k \in DOMAIN caches :
        \A i \in 1..Len(caches[k].discovered_cards) :
            LET d == caches[k].discovered_cards[i]
                c == d.card_data
                strategy == ghost[k].scored[d.card_id]
            IN  d.relevance_score =
                    10
                    + (IF "card_type" \in DOMAIN c
                          /\ Contains(Lower(d.search_context), Lower(c["card_type"]))
                       THEN 5 ELSE 0)
                    + (IF "abilities" \in DOMAIN c /\ Len(c["abilities"]) > 0 THEN 3 ELSE 0)
                    + (IF "attacks" \in DOMAIN c /\ Len(c["attacks"]) > 0 THEN 2 ELSE 0)
                    + (IF strategy # "" /\ "name" \in DOMAIN c
                          /\ \E w \in Range(Split(Lower(strategy))) : Contains(Lower(c["name"]), w)
                       THEN 4 ELSE 0)
                    + 2 * Cardinality(Range(d.synergy_tags))

\* C4: should_search is true on a cache without discovered cards, whatever the
\* message says.
C4_EmptyCacheSearches ==
    (ret.op = "should_search" /\ ret.key \in DOMAIN caches) =>
        (caches[ret.key].discovered_cards = <<>> => ret.out = TRUE)

\* the fresh cache that replaced an expired one, asked a pure question
C4_Witness ==
    /\ ret.op = "should_search"
    /\ ret.key \in DOMAIN caches
    /\ caches[ret.key].discovered_cards = <<>>
    /\ caches[ret.key].created_at >= 6
    /\ ret.user_message = "what can you build"
    /\ ret.out = TRUE

\* The vocabulary of the policy as the claims state it, on the lower-cased message
SaysRequest(m) ==
    \E w \in {"show me", "find", "search for", "get", "need"} : Contains(Lower(m), w)

SaysQuestion(m) ==
    \E w \in {"what", "how", "can you", "build", "recommend", "suggest"} : Contains(Lower(m), w)

\* the number of discovered cards whose record has the given card_type
Bucket(cache, card_type) ==
    Cardinality({ i \in 1..Len(cache.discovered_cards) :
                    /\ "card_type" \in DOMAIN cache.discovered_cards[i].card_data
                    /\ cache.discovered_cards[i].card_data["card_type"] = card_type })

\* rules 2a-2c: a card-type keyword whose bucket is below its threshold
TypeWanted(m, cache) ==
    \/ /\ \E w \in {"trainer", "support", "item"} : Contains(Lower(m), w)
       /\ Bucket(cache, "Trainer") < 10
    \/ /\ Contains(Lower(m), "energy")
       /\ Bucket(cache, "Energy") < 5
    \/ /\ \E w \in {"pokemon", "attacker"} : Contains(Lower(m), w)
       /\ Bucket(cache, "Pokémon") < 20

\* rule 2d: a strategic concept of the message that no history entry mentions
StrategyWanted(m, cache) ==
    \E w \in {"spread damage", "draw power", "energy acceleration", "disruption", "stall"} :
        /\ Contains(Lower(m), w)
        /\ \A i \in 1..Len(cache.search_history) : ~Contains(Lower(cache.search_history[i]), w)

\* C7: on a non-empty cache, when no rule-2 condition fires, a question trigger
\* gives false however few cards are cached; without one the result is true iff
\* fewer than 60 cards are discovered.
C7_QuestionThenDefault ==
    (ret.op = "should_search" /\ ret.key \in DOMAIN caches) =>
        LET cache == caches[ret.key]
            m == ret.user_message
        IN  ( /\ cache.discovered_cards # <<>>
              /\ ~(SaysRequest(m) /\ (TypeWanted(m, cache) \/ StrategyWanted(m, cache))) )
            => IF SaysQuestion(m) THEN ret.out = FALSE
               ELSE ret.out = (Len(cache.discovered_cards) < 60)

\* 60 cards cached and a message without any trigger: no search
C7_Witness ==
    /\ ret.op = "should_search"
    /\ ret.key \in DOMAIN caches
    /\ Len(caches[ret.key].discovered_cards) = 60
    /\ ~SaysRequest(ret.user_message)
    /\ ~SaysQuestion(ret.user_message)
    /\ ret.out = FALSE

\* C8: on a non-empty cache, a request trigger with a card-type keyword whose
\* bucket is below its threshold gives true, also with a question trigger in the
\* message and with 60 or more cards cached.
C8_RequestOverrides ==
    (ret.op = "should_search" /\ ret.key \in DOMAIN caches) =>
        LET cache == caches[ret.key]
            m == ret.user_message
        IN  (cache.discovered_cards # <<>> /\ SaysRequest(m) /\ TypeWanted(m, cache))
            => ret.out = TRUE

\* 60 or more cards, fewer than 10 trainers, and a question that asks for trainers
C8_Witness ==
    /\ ret.op = "should_search"
    /\ ret.key \in DOMAIN caches
    /\ Len(caches[ret.key].discovered_cards) >= 60
    /\ Bucket(caches[ret.key], "Trainer") < 10
    /\ SaysQuestion(ret.user_message)
    /\ SaysRequest(ret.user_message)
    /\ Contains(Lower(ret.user_message), "trainer")
    /\ ret.out = TRUE

\* C3: search_history never holds more than 20 entries, and after n calls that
\* add to a cache it is the last min(n, 20) search contexts in call order.
C3_HistoryBound ==
    \A key \in DOMAIN caches :
        LET h == caches[key].search_history
            log == ghost[key].log
            n == Len(log)
        IN  /\ Len(h) <= 20
            /\ Len(h) = IF n < 20 THEN n ELSE 20
            /\ \A i \in 1..Len(h) : h[i] = log[n - Len(h) + i]

\* 25 calls with distinct contexts: the history holds contexts 6..25 in order
C3_Witness ==
    /\ ret.op = "add_cards"
    /\ SessionKey \in DOMAIN caches
    /\ Len(SessionLog) = 25
    /\ \A i, j \in 1..25 : i # j => SessionLog[i] # SessionLog[j]
    /\ Len(caches[SessionKey].search_history) = 20
    /\ caches[SessionKey].search_history[1] = "fire deck 6"
    /\ caches[SessionKey].search_history[20] = "fire deck 25"

\* the message names one of the strategic concepts
NamesConcept(m) ==
    \E w \in {"spread damage", "draw power", "energy acceleration", "disruption", "stall"} :
        Contains(Lower(m), w)

\* C9: once a search for a message that names a strategic concept has been made
\* for a cache, should_search never again returns true through rule 2d for that
\* message on that cache, whatever other searches follow.
C9_SearchedOnce ==
    (ret.op = "should_search" /\ ret.key \in DOMAIN caches) =>
        LET cache == caches[ret.key]
            m == ret.user_message
        IN  ( /\ \E i \in 1..Len(ghost[ret.key].searched) : ghost[ret.key].searched[i] = m
              /\ cache.discovered_cards # <<>>
              /\ SaysRequest(m)
              /\ NamesConcept(m)
              /\ ~TypeWanted(m, cache) )
            => ~(StrategyWanted(m, cache) /\ ret.out = TRUE)

\* C11: a record with only its card_id is stored with no synergy tag and
\* relevance exactly the base 1.0, whatever the search context and the strategy
\* context: an absent field adds nothing.
C11_AbsentFieldsAddNothing ==
    \A k \in DOMAIN caches :
        \A i \in 1..Len(caches[k].discovered_cards) :
            LET d == caches[k].discovered_cards[i]
            IN  DOMAIN d.card_data = {"card_id"} =>
                    /\ d.synergy_tags = <<>>
                    /\ d.relevance_score = 10

\* C18: add_cards of the Emberpup record with 'looking for fire attackers' on a
\* registry without a cache for the key gives one entry keyed c1, tagged
\* type_fire and spread_damage, scored 1.0 + 0.2 for the attack + 0.2 per tag
\* and nothing for the type label.
C18_Emberpup ==
    ( /\ ret.op = "add_cards"
      /\ ret.before = <<>>
      /\ ret.cards = <<Emberpup>>
      /\ ret.search_context = "looking for fire attackers" )
    => LET cards == caches[ret.key].discovered_cards
       IN  /\ Len(cards) = 1
           /\ cards[1].card_id = "c1"
           /\ \E i \in 1..Len(cards[1].synergy_tags) : cards[1].synergy_tags[i] = "type_fire"
           /\ \E i \in 1..Len(cards[1].synergy_tags) : cards[1].synergy_tags[i] = "spread_damage"
           /\ cards[1].relevance_score = 10 + 2 + 2 * Len(cards[1].synergy_tags)

\* a record that carries a non-empty card_id
Identified(card) == "card_id" \in DOMAIN card /\ card["card_id"] # ""

\* the input records that are not skipped, in input order
Kept(cards) == SelectSeq(cards, Identified)

\* C12: add_discovered_cards skips the records without a card_id (absent or
\* empty), inserts all the others and returns one CardDiscovery per record not
\* skipped, in input order.
C12_SkipsAndReturns ==
    ret.op = "add_cards" =>
        /\ Len(ret.out) = Len(Kept(ret.cards))
        /\ \A j \in 1..Len(ret.out) :
              /\ ret.out[j].card_data = Kept(ret.cards)[j]
              /\ ret.out[j].card_id = Kept(ret.cards)[j]["card_id"]
              /\ ret.out[j].card_id \in CardIds(caches[ret.key].discovered_cards)
        /\ \A i \in 1..Len(caches[ret.key].discovered_cards) :
              caches[ret.key].discovered_cards[i].card_id # ""

\* a record with an empty id between two records that are inserted
C12_Witness ==
    /\ ret.op = "add_cards"
    /\ Len(ret.cards) = 3
    /\ "card_id" \in DOMAIN ret.cards[2]
    /\ ret.cards[2]["card_id"] = ""
    /\ Len(ret.out) = 2
    /\ ret.out[1].card_data = ret.cards[1]
    /\ ret.out[2].card_data = ret.cards[3]

\* C19: last_updated >= created_at in every cache of every reachable state, also
\* right after creation and after every add_cards and update_strategy_context.
C19_UpdatedAfterCreated ==
    /\ \A k \in DOMAIN caches : caches[k].last_updated >= caches[k].created_at
    /\ (ret.op = "get_cache" => ret.cache.last_updated >= ret.cache.created_at)

\* a live cache updated some hours after it was created
C19_Witness ==
    /\ ret.op \in {"add_cards", "update_strategy_context"}
    /\ ret.key \in DOMAIN caches
    /\ ~ret.fresh
    /\ ret.before # <<>>
    /\ caches[ret.key].created_at = ret.before[1].created_at
    /\ caches[ret.key].last_updated > caches[ret.key].created_at

\* the cache a call resolved to, before the call changed it: the live entry, or
\* the empty cache created at the time of the call
ResolvedBy(r) ==
    IF r.fresh
    THEN [discovered_cards |-> <<>>, search_history |-> <<>>, strategy_context |-> "",
          synergy_patterns |-> <<>>, created_at |-> r.at]
    ELSE r.before[1]

C13_OnlyHistoryAndTime ==
    (ret.op = "add_cards" /\ ret.cards = <<>>) =>
        LET old == ResolvedBy(ret)
            new == caches[ret.key]
            h == Append(old.search_history, ret.search_context)
        IN  /\ ret.out = <<>>
            /\ new.discovered_cards = old.discovered_cards
            /\ new.strategy_context = old.strategy_context
            /\ new.created_at = old.created_at
            /\ new.synergy_patterns = old.synergy_patterns
            /\ new.search_history = IF Len(h) > 20 THEN SubSeq(h, Len(h) - 19, Len(h)) ELSE h
            /\ new.last_updated = ret.at

C13_OtherKeysUntouched ==
    (ret'.op = "add_cards" /\ ret'.cards = <<>>) =>
        /\ DOMAIN caches' \ {ret'.key} = DOMAIN caches \ {ret'.key}
        /\ \A k \in DOMAIN caches \ {ret'.key} : caches'[k] = caches[k]

\* C13: add_cards with an empty list succeeds and changes, on the cache it
\* resolves to, only search_history (the context appended, at most 20 kept) and
\* last_updated; no other key's cache is touched.
C13_EmptyAdd == [](C13_OnlyHistoryAndTime) /\ [][C13_OtherKeysUntouched]_vars

\* an empty add, hours after the last update, on a live cache that holds a card
\* and a strategy, next to the cache of another key
C13_Witness ==
    /\ ret.op = "add_cards"
    /\ ret.cards = <<>>
    /\ ~ret.fresh
    /\ ret.before # <<>>
    /\ ret.before[1].discovered_cards # <<>>
    /\ ret.before[1].strategy_context # ""
    /\ ret.at > ret.before[1].last_updated
    /\ Len(caches[ret.key].search_history) = Len(ret.before[1].search_history) + 1
    /\ DOMAIN caches # {ret.key}

\* the composite key as the claims state it
KeyOf(cache) ==
    cache.user_id \o "_" \o (IF cache.deck_id = <<>> THEN "default" ELSE cache.deck_id[1])

\* the one cache held under a key is the cache of that key
C15_OnePerKey == \A k \in DOMAIN caches : KeyOf(caches[k]) = k

\* stats() counts every entry in the total and only the unexpired ones as active
C15_StatsCountExpired ==
    ret.op = "get_cache_stats" =>
        /\ ret.out.total_caches = Cardinality(DOMAIN caches)
        /\ ret.out.active_caches =
               Cardinality({k \in DOMAIN caches : ret.at - caches[k].last_updated < 6})
        /\ ret.out.cache_keys = DOMAIN caches

\* an expired entry leaves the registry only through a call on its own key
C15_PurgedByOwnKey ==
    \A k \in DOMAIN caches :
        ( /\ now - caches[k].last_updated >= 6
          /\ IF k \in DOMAIN caches' THEN caches'[k] # caches[k] ELSE TRUE )
        => /\ ret'.op \in {"get_cache", "add_cards", "update_strategy_context", "clear_cache"}
           /\ ret'.key = k

\* C15: the registry holds at most one cache per composite key, and an expired
\* cache is removed only by a lookup of its own key (get_cache, add_cards,
\* update_strategy_context) or by clear: lookups of other keys and stats() leave
\* it, and stats() counts it in the total but not as active.
C15_LazyPurge ==
    [](C15_OnePerKey /\ C15_StatsCountExpired) /\ [][C15_PurgedByOwnKey]_vars

\* stats() with two entries, one of them expired before the other was created
C15_Witness ==
    /\ ret.op = "get_cache_stats"
    /\ ret.out.total_caches = 2
    /\ ret.out.active_caches = 1
    /\ \E k1, k2 \in DOMAIN caches :
          /\ ret.at - caches[k1].last_updated >= 6
          /\ caches[k2].created_at - caches[k1].last_updated >= 6

\* deck_completion is kept in sixtieths of a percent: 50 is 3000, 100 is 6000
C14_Completion ==
    ret.op = "get_deck_progress" =>
        LET n == Len(caches[ret.key].discovered_cards)
            c == ret.out.deck_completion_x60
        IN  /\ ret.out.total_discovered = n
            /\ c = IF n * 100 <= 6000 THEN n * 100 ELSE 6000
            /\ c <= 6000
            /\ (n = 30 => c = 50 * 60)
            /\ (n = 60 => c = 100 * 60)
            /\ (n = 90 => c = 100 * 60)

C14_NeverDecreases ==
    \A k \in DOMAIN caches :
        (k \in DOMAIN caches' /\ ~Replaced(ret', k))
            => GetDeckProgress(caches'[k]).deck_completion_x60
                  >= GetDeckProgress(caches[k]).deck_completion_x60

\* C14: deck_completion = min(100, total_discovered * 100 / 60): 50 for 30
\* cards, 100 for 60, capped at 100 above; never above 100, and it never
\* decreases during the lifetime of one cache.
C14_Progress == [](C14_Completion) /\ [][C14_NeverDecreases]_vars

\* 90 cards discovered: 100, not 150
C14_Witness ==
    /\ ret.op = "get_deck_progress"
    /\ Cardinality(ghost[ret.key].ids) = 90
    /\ ret.out.total_discovered = 90
    /\ ret.out.deck_completion_x60 = 100 * 60

C17_StrategyFrame ==
    /\ (ret.op = "update_strategy_context" /\ ~ret.fresh) =>
           LET old == ret.before[1]
               new == caches[ret.key]
           IN  /\ new.strategy_context = ret.strategy
               /\ new.last_updated = ret.at
               /\ new.discovered_cards = old.discovered_cards
               /\ new.search_history = old.search_history
               /\ new.created_at = old.created_at
    /\ ret.op = "add_cards" =>
           \A j \in 1..Len(ret.out) :
               ret.out[j].relevance_score =
                   CalculateRelevance(ret.out[j].card_data, ret.search_context,
                                      caches[ret.key].strategy_context)

\* the strategy set names a card already stored, an hour after it was stored;
\* its score stays the one without the strategy bonus
C17_Witness ==
    /\ ret.op = "update_strategy_context"
    /\ ~ret.fresh
    /\ ret.before # <<>>
    /\ ret.at > ret.before[1].last_updated
    /\ ret.strategy # ret.before[1].strategy_context
    /\ \E i \in 1..Len(caches[ret.key].discovered_cards) :
          LET d == caches[ret.key].discovered_cards[i]
          IN  /\ d.relevance_score = CalculateRelevance(d.card_data, d.search_context, "")
              /\ d.relevance_score + 4 =
                    CalculateRelevance(d.card_data, d.search_context, ret.strategy)

\* C20: every step that changes a cache's stored state (discovered_cards,
\* search_history, strategy_context or synergy_patterns) sets its last_updated
\* to the current time.
C20_MutationBumps ==
    [][\A k \in DOMAIN caches :
          ( /\ k \in DOMAIN caches'
            /\ \/ caches'[k].discovered_cards # caches[k].discovered_cards
               \/ caches'[k].search_history # caches[k].search_history
               \/ caches'[k].strategy_context # caches[k].strategy_context
               \/ caches'[k].synergy_patterns # caches[k].synergy_patterns )
          => caches'[k].last_updated = now']_vars

\* the names of a synergy are distinct
Distinct(names) == \A i, j \in 1..Len(names) : i # j => names[i] # names[j]

\* C22: every tag in the output of identify_synergies, and in the stored
\* synergy_patterns, has at least two card names, all distinct; cards that share
\* one name count once.
C22_DistinctNames ==
    /\ ret.op = "identify_synergies" =>
           \A i \in 1..Len(ret.out) :
               Len(ret.out[i].names) >= 2 /\ Distinct(ret.out[i].names)
    /\ \A k \in DOMAIN caches :
           \A i \in 1..Len(caches[k].synergy_patterns) :
               /\ Len(caches[k].synergy_patterns[i].names) >= 2
               /\ Distinct(caches[k].synergy_patterns[i].names)

\* the tags that at least two discovered cards carry
SharedTags(cache) == {tag \in AllTags(cache) : Cardinality(CardsWithTag(cache, tag)) >= 2}

\* C23: the synergy count of get_deck_progress is the number of tags shared by
\* at least two of the cards now in discovered_cards, whether or not
\* identify_synergies or get_cache_summary ran since the last insertion.
C23_ProgressCountsSynergies ==
    ret.op = "get_deck_progress" =>
        ret.out.synergy_patterns = Cardinality(SharedTags(caches[ret.key]))

\* position of id in the order of first insertion
Pos(order, id) == CHOOSE i \in 1..Len(order) : order[i] = id

Least(a, b) == IF a < b THEN a ELSE b

\* C24: get_top_cards_by_relevance(limit), limit >= 0, returns min(limit, n)
\* discoveries of the cache in non-increasing score order, equal scores in the
\* order in which their ids were first inserted (also for an id inserted again
\* later), and changes no state.
C24_TopCards ==
    /\ [](ret.op = "get_top_cards_by_relevance" /\ ret.limit >= 0 =>
             LET all == caches[ret.key].discovered_cards
                 order == ghost[ret.key].order
                 out == ret.out
             IN  /\ Len(out) = Least(ret.limit, Len(all))
                 /\ \A i \in 1..Len(out) : out[i] \in Range(all)
                 /\ \A i, j \in 1..Len(out) : i < j =>
                       /\ out[i].relevance_score >= out[j].relevance_score
                       /\ out[i].card_id # out[j].card_id
                       /\ out[i].relevance_score = out[j].relevance_score =>
                             Pos(order, out[i].card_id) < Pos(order, out[j].card_id)
                 /\ \A d \in Range(all) : d \notin Range(out) =>
                       \A i \in 1..Len(out) :
                          \/ out[i].relevance_score > d.relevance_score
                          \/ /\ out[i].relevance_score = d.relevance_score
                             /\ Pos(order, out[i].card_id) < Pos(order, d.card_id))
    /\ [][ret'.op = "get_top_cards_by_relevance" => caches' = caches]_vars

\* two cards of equal score are returned, the first of them inserted first and
\* inserted again after the second
C24_Witness ==
    /\ ret.op = "get_top_cards_by_relevance"
    /\ Len(ret.out) >= 2
    /\ ret.out[1].relevance_score = ret.out[2].relevance_score
    /\ ret.out[1].discovered_at > ret.out[2].discovered_at
    /\ Len(ghost[ret.key].log) = 2

\* the entry a first insertion of record card with search_context produces at
\* time t in a cache whose strategy is strategy
FirstInsertion(card, search_context, strategy, t) ==
    [card_id |-> card["card_id"],
     name |-> Get(card, "name", "Unknown"),
     card_type |-> Get(card, "card_type", "Unknown"),
     card_data |-> card,
     discovered_at |-> t,
     search_context |-> search_context,
     relevance_score |-> CalculateRelevance(card, search_context, strategy),
     synergy_tags |-> ExtractSynergyTags(card),
     types |-> Get(card, "types", <<>>),
     subtype |-> Get(card, "subtype", "")]

\* the last record of cards that carries id
LastWith(cards, id) ==
    LET at == { i \in 1..Len(cards) : HasCardId(cards[i]) /\ cards[i]["card_id"] = id }
    IN  cards[CHOOSE i \in at : \A j \in at : j <= i]

\* C25: inserting an id that is stored already, with a different record,
\* replaces the whole entry: card_data, search_context, relevance_score and
\* synergy_tags are those of a first insertion of the new record with the new
\* search_context, no tag and no bonus of the old entry is kept, and the number
\* of entries is unchanged.
C25_LastWriteWins ==
    ret.op = "add_cards" =>
        LET old == ResolvedBy(ret).discovered_cards
            new == caches[ret.key].discovered_cards
        IN  /\ \A i \in 1..Len(new) :
                  new[i].card_id \in BatchIds(ret.cards) =>
                      new[i] = FirstInsertion(LastWith(ret.cards, new[i].card_id),
                                              ret.search_context,
                                              caches[ret.key].strategy_context, ret.at)
            /\ BatchIds(ret.cards) \subseteq CardIds(old) => Len(new) = Len(old)
            /\ Cardinality(CardIds(new)) = Len(new)

\* the record stored under an id is replaced by another one that has neither
\* all the tags nor the strategy bonus of the old entry
C25_Witness ==
    /\ ret.op = "add_cards"
    /\ ~ret.fresh
    /\ ret.before # <<>>
    /\ BatchIds(ret.cards) \subseteq CardIds(ret.before[1].discovered_cards)
    /\ \E i \in 1..Len(ret.before[1].discovered_cards) :
          LET was == ret.before[1].discovered_cards[i]
              is == Lookup(caches[ret.key].discovered_cards, was.card_id)
          IN  /\ was.card_id \in BatchIds(ret.cards)
              /\ was.card_data # is.card_data
              /\ was.search_context # is.search_context
              /\ was.relevance_score > is.relevance_score
              /\ StrategyMatches(was.card_data, ret.before[1].strategy_context)
              /\ ~(Range(was.synergy_tags) \subseteq Range(is.synergy_tags))

ReadOps ==
    {"get_cards_by_type", "get_cards_by_synergy", "get_top_cards_by_relevance",
     "get_deck_progress", "suggest_next_search", "should_search"}

Renewing == {"add_cards", "update_strategy_context"}

C28_ReadsChangeNothing ==
    /\ ret'.op \in ReadOps => caches' = caches
    /\ (ret'.op = "get_cache" /\ ~ret'.fresh) => caches' = caches
    /\ \A k \in DOMAIN caches \cap DOMAIN caches' :
          caches'[k].last_updated # caches[k].last_updated =>
              /\ ret'.key = k
              /\ ret'.op \in Renewing \/ (ret'.op = "get_cache" /\ ret'.fresh)

C28_DiscardedAfterTimeout ==
    (ret.op \in Renewing \cup {"get_cache"} /\ ret.before # <<>>) =>
        (ret.fresh <=> ret.at - ret.before[1].last_updated >= CacheTimeout)

\* C28: get_cache on a live cache and the read operations leave last_updated and
\* every other field of the cache unchanged; only add_cards and
\* update_strategy_context renew a session, so a session that is only read is
\* discarded at the first lookup 6 hours or more after its last renewal.
C28_OnlyWritesRenew == [](C28_DiscardedAfterTimeout) /\ [][C28_ReadsChangeNothing]_vars

\* a session that holds cards is discarded by the lookup made exactly 6 hours
\* after its last add
C28_Witness ==
    /\ ret.op = "get_cache"
    /\ ret.fresh
    /\ ret.before # <<>>
    /\ ret.before[1].discovered_cards # <<>>
    /\ ret.at - ret.before[1].last_updated = CacheTimeout

\* C26: sessions are isolated per pair (user_id, deck_id): the cache a call
\* on a pair returns, fills or removes is the cache created for that very pair,
\* also when the ids contain '_' or the deck_id is 'default'.
C26_IsolatedPairs ==
    /\ ret.op = "get_cache" =>
           ret.cache.user_id = ret.user_id /\ ret.cache.deck_id = ret.deck_id
    /\ ret.op = "add_cards" =>
           /\ caches[ret.key].user_id = ret.user_id
           /\ caches[ret.key].deck_id = ret.deck_id
    /\ (ret.op = "clear_cache" /\ ret.before # <<>>) =>
           ret.before[1].user_id = ret.user_id /\ ret.before[1].deck_id = ret.deck_id

\* C27: the cache a request reads (decision, context, summary, count) is the
\* one in which its results are stored, whenever the request runs relative to
\* the timeout: the count returned is the count of the registry's cache, which
\* holds the cards the request found.
C27_OneCachePerRequest ==
    ret.op = "request" =>
        /\ ret.attached
        /\ ret.key \in DOMAIN caches
        /\ ret.total_discovered_cards = Len(caches[ret.key].discovered_cards)
        /\ BatchIds(ret.cards_found) \subseteq CardIds(caches[ret.key].discovered_cards)

\* C29: add_discovered_cards is all-or-nothing: when a record of the batch
\* raises, the cache is exactly as before the call (no record of the batch
\* stored, search_history and last_updated unchanged).
C29_AllOrNothing ==
    (ret.op = "add_cards" /\ ret.raised /\ ~ret.fresh) => caches[ret.key] = ret.before[1]

\* C30: the pagination loop of the strategic search requests at most 10 pages
\* and collects at most 10,000 cards, whatever the provider returns, also when
\* every page is full.
C30_AtMostTenPages ==
    /\ (req # NoReq /\ req[1].stage = "paging") =>
           /\ req[1].requested < MaxPages
           /\ req[1].collected <= MaxPages * PageLimit
    /\ ret.op = "strategic_search" =>
           /\ ret.requested <= MaxPages
           /\ ret.collected <= MaxPages * PageLimit

\* both calls have returned
BothDone == req # NoReq /\ \A t \in Threads : req[1].calls[t].pc = "done"

\* a context appended by a call is missing from search_history although fewer
\* than 20 entries were appended after it
LostUpdate ==
    LET log == ghost[SessionKey].log
        history == caches[SessionKey].search_history
    IN  \E i \in 1..Len(log) :
           /\ Len(log) - i < HistoryLimit
           /\ log[i] \notin Range(history)

====
